---- MODULE Spec2Model ----
(***************************************************************************)
(* RailyardShuffle: the spline track network, the linking and drag engine  *)
(* (EntitySystem, and the LocomotiveSystem subclass of                     *)
(* BaseLinkableEntitySystem), the level builder and the level scene.       *)
(*                                                                         *)
(* Numbers.  Coordinates are integers in units of 1/Scale pixel, so that   *)
(* the half width of a 45 px locomotive is integral.  Track progress       *)
(* (0..1 in the source) is an integer 0..PMax.  The level's tracks are     *)
(* straight two-point splines of PMax units, so one progress unit is one   *)
(* coordinate unit and getPositionOnSpline is exact.                       *)
(***************************************************************************)
EXTENDS Integers, Sequences, FiniteSets, TLC

VARIABLES
  impl,         \* which entity system class is instantiated
  tracks,       \* SplineTrackSystem.tracks : id -> TrackSegment
  connections,  \* SplineTrackSystem.connections : id -> list of ids
  entities,     \* EntitySystem.entities : id -> Entity
  dragState,    \* EntitySystem.dragState
  lastOp,       \* name of the last operation called
  lastArg,      \* the entity id passed to it, if it takes one
  lastResult,   \* its return value ("void" when it returns nothing)
  linkResult,   \* what the last updateDrag did about linking
  ops,          \* number of operations called so far
  scene,        \* BaseSplineRailyardScene: lastMouseDown, and isDragging of
                \* its trainCarSystem and its locomotiveSystem
  game          \* GameEngine, GameStateManager and LevelManager, and the
                \* level scene's isLevelComplete

vars == <<impl, tracks, connections, entities, dragState, lastOp, lastArg,
          lastResult, linkResult, ops, scene, game>>

---------------------------------------------------------------------------
(* Bounds and program constants *)

MaxOps == 5

Scale == 2

TRAIN_CAR_WIDTH == 50
TRAIN_CAR_HEIGHT == 22
LINKING_DISTANCE == 50
LOCO_WIDTH == 45
LOCO_HEIGHT == 30
desiredGap == 8
minEdgeSeparation == 5
PLAY_AREA_DEFAULT_HEIGHT == 600
startX == 100
endX == 700
ClosestSamples == 100
LengthSamples == 100
BinarySearchIterations == 20
MoveThresholdDen == 1000
DefaultMaxCars == 3

None == "none"
REGULAR == "REGULAR"
CARGO == "CARGO"
PASSENGER == "PASSENGER"
LOCOMOTIVE == "LOCOMOTIVE"

\* progress 1.0
PMax == (endX - startX) * Scale

Infinity == PMax * PMax

Vec(x, y) == [x |-> x, y |-> y]
Abs(n) == IF n < 0 THEN -n ELSE n
Max(a, b) == IF a > b THEN a ELSE b
Min(a, b) == IF a < b THEN a ELSE b
Includes(seq, v) == \E i \in 1..Len(seq) : seq[i] = v

\* Math.sqrt, rounded down
RECURSIVE SqrtFrom(_, _)
SqrtFrom(n, r) == IF (r + 1) * (r + 1) > n THEN r ELSE SqrtFrom(n, r + 1)
Sqrt(n) == SqrtFrom(n, 0)

\* squared Euclidean distance: compares as calculateDistance does
Distance2(pos1, pos2) ==
  (pos2.x - pos1.x) * (pos2.x - pos1.x) + (pos2.y - pos1.y) * (pos2.y - pos1.y)

calculateDistance(pos1, pos2) ==
  IF pos1.y = pos2.y THEN Abs(pos2.x - pos1.x)
  ELSE IF pos1.x = pos2.x THEN Abs(pos2.y - pos1.y)
  ELSE Sqrt(Distance2(pos1, pos2))

---------------------------------------------------------------------------
(* SplineTrackSystem *)

lerp(p1, p2, t) ==
  Vec(p1.x + ((p2.x - p1.x) * t) \div PMax,
      p1.y + ((p2.y - p1.y) * t) \div PMax)

\* one coordinate of the Catmull-Rom formula, 0.5 * (2 p1 + c1 u + c2 u^2
\* + c3 u^3) with u = localT / PMax, evaluated from the innermost term
catmullRomCoord(p0, p1, p2, p3, localT) ==
  (2 * p1
     + (((p2 - p0)
          + (((2 * p0 - 5 * p1 + 4 * p2 - p3)
               + ((3 * p1 - p0 - 3 * p2 + p3) * localT) \div PMax)
              * localT) \div PMax)
         * localT) \div PMax) \div 2

\* the formula on the control points of segment `segment` (0-based) of a
\* spline whose last index is n
catmullRomAt(points, n, segment, localT) ==
  Vec(catmullRomCoord(points[Max(0, segment - 1) + 1].x,
                      points[segment + 1].x,
                      points[Min(n, segment + 1) + 1].x,
                      points[Min(n, segment + 2) + 1].x, localT),
      catmullRomCoord(points[Max(0, segment - 1) + 1].y,
                      points[segment + 1].y,
                      points[Min(n, segment + 1) + 1].y,
                      points[Min(n, segment + 2) + 1].y, localT))

\* variant whose segment starts one control point early
catmullRomSpline_fromPreviousPoint(points, t) ==
  catmullRomAt(points, Len(points) - 1,
               Max(0, (t * (Len(points) - 1)) \div PMax - 1),
               t * (Len(points) - 1)
                 - ((t * (Len(points) - 1)) \div PMax) * PMax)

\* segment = Math.floor(t * n); localT = t * n - segment
catmullRomSpline(points, t) ==
  catmullRomAt(points, Len(points) - 1,
               (t * (Len(points) - 1)) \div PMax,
               t * (Len(points) - 1)
                 - ((t * (Len(points) - 1)) \div PMax) * PMax)

getPositionOnSpline(spline, t) ==
  IF Len(spline) = 0 THEN Vec(0, 0)
  ELSE IF Len(spline) = 1 THEN spline[1]
  ELSE IF Len(spline) = 2
       THEN lerp(spline[1], spline[2], Max(0, Min(PMax, t)))
  ELSE catmullRomSpline(spline, Max(0, Min(PMax, t)))

\* for (t = 0; t <= 1; t += 0.01): the float sum passes 1 after 100 rounds,
\* so the samples are 0, 0.01, .., 0.99
sampleT(i) == (i * PMax) \div ClosestSamples

\* the loop replaces its best sample only on a strictly smaller distance, so
\* it ends on the first sample of least distance; distance is kept squared
findClosestPointOnSpline(spline, position) ==
  LET samples == {<<Distance2(position,
                              getPositionOnSpline(spline, sampleT(i))), i>> :
                    i \in 0..(ClosestSamples - 1)}
      closest == CHOOSE p \in samples :
                   \A q \in samples :
                     p[1] < q[1] \/ (p[1] = q[1] /\ p[2] <= q[2])
  IN  [t |-> sampleT(closest[2]),
       position |-> getPositionOnSpline(spline, sampleT(closest[2])),
       distance |-> closest[1]]

addTrack(ts, track) ==
  [tracks |-> [id \in DOMAIN ts.tracks \cup {track.id} |->
                 IF id = track.id THEN track ELSE ts.tracks[id]],
   connections |-> [id \in DOMAIN ts.connections \cup {track.id} |->
                 IF id \in DOMAIN ts.connections THEN ts.connections[id]
                 ELSE <<>>]]

getConnectedTracksOf(conns, trackId) ==
  IF trackId \in DOMAIN conns THEN conns[trackId] ELSE <<>>

\* variant that records the connection on the side of `from` only
addConnection_oneWay(ts, connection) ==
  [ts EXCEPT !.connections =
    [id \in DOMAIN ts.connections \cup {connection.from} |->
       IF id = connection.from
       THEN Append(getConnectedTracksOf(ts.connections, connection.from),
                   connection.to)
       ELSE ts.connections[id]]]

addConnection(ts, connection) ==
  LET fromC == getConnectedTracksOf(ts.connections, connection.from)
      toC0 == IF connection.to = connection.from
              THEN fromC ELSE getConnectedTracksOf(ts.connections, connection.to)
      fromC1 == IF Includes(fromC, connection.to) THEN fromC
                ELSE Append(fromC, connection.to)
      \* when from = to both names are the same array
      toBase == IF connection.to = connection.from THEN fromC1 ELSE toC0
      toC1 == IF Includes(toBase, connection.from) THEN toBase
              ELSE Append(toBase, connection.from)
  IN  [ts EXCEPT !.connections =
        [id \in DOMAIN ts.connections \cup {connection.from, connection.to} |->
           IF id = connection.to THEN toC1
           ELSE IF id = connection.from THEN fromC1
           ELSE ts.connections[id]]]

getConnectedTracks(trackId) == getConnectedTracksOf(connections, trackId)

setTrackOccupied(trk, trackId, occupied) ==
  IF trackId \in DOMAIN trk
  THEN [trk EXCEPT ![trackId].occupied = occupied]
  ELSE trk

isTrackOccupied(trackId) ==
  IF trackId \in DOMAIN tracks THEN tracks[trackId].occupied ELSE FALSE

---------------------------------------------------------------------------
(* SplineLevelBuilder and the level configuration *)

trackY == (PLAY_AREA_DEFAULT_HEIGHT \div 2) * Scale

\* a level in the style of RailyardLevel1Scene / RailyardLevel2Scene: a
\* straight main track, a second track joined to its right end, two
\* locomotives and two cars on the main track
LevelConfig ==
  [tracks |-> <<
     [id |-> "T1",
      points |-> <<Vec(startX * Scale, trackY), Vec(endX * Scale, trackY)>>,
      connections |-> <<"T2">>],
     [id |-> "T2",
      points |-> <<Vec(endX * Scale, trackY),
                   Vec((2 * endX - startX) * Scale, trackY)>>,
      connections |-> <<>>] >>,
   locomotives |-> <<
     [id |-> "loco_A", trackId |-> "T1", progress |-> (9 * PMax) \div 10,
      acceptedCarTypes |-> <<REGULAR>>, maxCars |-> 2],
     [id |-> "loco_B", trackId |-> "T1", progress |-> (3 * PMax) \div 4,
      acceptedCarTypes |-> <<REGULAR, CARGO>>, maxCars |-> 1] >>,
   cars |-> <<
     [trackId |-> "T1", progress |-> PMax \div 10, type |-> REGULAR,
      targetLocomotive |-> "loco_A"],
     [trackId |-> "T1", progress |-> (3 * PMax) \div 10, type |-> CARGO,
      targetLocomotive |-> "loco_B"] >>]

HasTrack(config, trackId) ==
  \E i \in 1..Len(config.tracks) : config.tracks[i].id = trackId

\* tracks.find(t => t.id === trackId)
FindTrack(config, trackId) ==
  config.tracks[CHOOSE i \in 1..Len(config.tracks) :
     /\ config.tracks[i].id = trackId
     /\ \A j \in 1..(i - 1) : config.tracks[j].id # trackId]

\* SplineLevelBuilder.getPositionOnSpline: piecewise linear
builderPositionOnSpline(spline, t) ==
  IF Len(spline) = 0 THEN Vec(0, 0)
  ELSE IF Len(spline) = 1 THEN spline[1]
  ELSE LET tc == Max(0, Min(PMax, t))
           n == Len(spline) - 1
           segment == (tc * n) \div PMax
           localT == tc * n - segment * PMax
       IN  lerp(spline[Min(segment, n) + 1], spline[Min(segment + 1, n) + 1],
                localT)

RECURSIVE buildConnections(_, _, _, _)
buildConnections(config, i, j, acc) ==
  IF i > Len(config.tracks) THEN acc
  ELSE IF j > Len(config.tracks[i].connections)
       THEN buildConnections(config, i + 1, 1, acc)
  ELSE LET from == config.tracks[i].id
           to == config.tracks[i].connections[j]
           existing == \E k \in 1..Len(acc) :
                          \/ (acc[k].from = from /\ acc[k].to = to)
                          \/ (acc[k].from = to /\ acc[k].to = from)
       IN  buildConnections(config, i, j + 1,
             IF existing THEN acc ELSE Append(acc, [from |-> from, to |-> to]))

buildLocomotive(config, c) ==
  LET splinePos == builderPositionOnSpline(FindTrack(config, c.trackId).points,
                                           c.progress)
  IN  [id |-> c.id, type |-> LOCOMOTIVE,
       position |-> Vec(splinePos.x - (LOCO_WIDTH * Scale) \div 2,
                        splinePos.y - (LOCO_HEIGHT * Scale) \div 2),
       size |-> Vec(LOCO_WIDTH * Scale, LOCO_HEIGHT * Scale),
       currentTrack |-> c.trackId, trackProgress |-> c.progress,
       isDragging |-> FALSE, isCompleted |-> FALSE, linkedCars |-> <<>>,
       linkedToFront |-> None, linkedToBack |-> None,
       targetLocomotive |-> None,
       acceptedCarTypes |-> c.acceptedCarTypes,
       maxCars |-> IF c.maxCars = 0 THEN DefaultMaxCars ELSE c.maxCars]

buildTrainCar(config, c, index) ==
  LET splinePos == builderPositionOnSpline(FindTrack(config, c.trackId).points,
                                           c.progress)
  IN  [id |-> c.trackId \o "_car_" \o ToString(index), type |-> c.type,
       position |-> Vec(splinePos.x - (TRAIN_CAR_WIDTH * Scale) \div 2,
                        splinePos.y - (TRAIN_CAR_HEIGHT * Scale) \div 2),
       size |-> Vec(TRAIN_CAR_WIDTH * Scale, TRAIN_CAR_HEIGHT * Scale),
       currentTrack |-> c.trackId, trackProgress |-> c.progress,
       isDragging |-> FALSE, isCompleted |-> FALSE, linkedCars |-> <<>>,
       linkedToFront |-> None, linkedToBack |-> None,
       targetLocomotive |-> c.targetLocomotive,
       acceptedCarTypes |-> <<>>, maxCars |-> 0]

buildLevel(config) ==
  LET locoCfg == SelectSeq(config.locomotives,
                           LAMBDA c : HasTrack(config, c.trackId))
      carIdx == SelectSeq([i \in 1..Len(config.cars) |-> i],
                          LAMBDA i : HasTrack(config, config.cars[i].trackId))
      withTarget == SelectSeq(config.cars,
                              LAMBDA c : c.targetLocomotive # None)
      used(trackId) ==
        \/ \E i \in 1..Len(locoCfg) : FindTrack(config, locoCfg[i].trackId).id = trackId
        \/ \E i \in 1..Len(carIdx) : config.cars[carIdx[i]].trackId = trackId
  IN  [tracks |-> [i \in 1..Len(config.tracks) |->
                     [id |-> config.tracks[i].id,
                      spline |-> config.tracks[i].points,
                      occupied |-> used(config.tracks[i].id)
                                   /\ FindTrack(config, config.tracks[i].id)
                                        = config.tracks[i]]],
       connections |-> buildConnections(config, 1, 1, <<>>),
       locomotives |-> [i \in 1..Len(locoCfg) |->
                          buildLocomotive(config, locoCfg[i])],
       trainCars |-> [i \in 1..Len(carIdx) |->
                        buildTrainCar(config, config.cars[carIdx[i]],
                                      carIdx[i] - 1)],
       requiredConnections |-> [i \in 1..Len(withTarget) |->
          [carId |-> withTarget[i].trackId \o "_car_" \o ToString(i - 1),
           locomotiveId |-> withTarget[i].targetLocomotive]]]

Level == buildLevel(LevelConfig)

\* Map insertion order of loadLevel: locomotives, then cars
insertionOrder(level) ==
  [i \in 1..Len(level.locomotives) |-> level.locomotives[i].id]
    \o [i \in 1..Len(level.trainCars) |-> level.trainCars[i].id]

EntityOrder == insertionOrder(Level)

EntityIds == {EntityOrder[i] : i \in 1..Len(EntityOrder)}

RECURSIVE addTracks(_, _, _)
addTracks(ts, seq, i) ==
  IF i > Len(seq) THEN ts ELSE addTracks(addTrack(ts, seq[i]), seq, i + 1)

RECURSIVE addConnections(_, _, _)
addConnections(ts, seq, i) ==
  IF i > Len(seq) THEN ts
  ELSE addConnections(addConnection(ts, seq[i]), seq, i + 1)

\* EntitySystem.addEntity, on the pair (entity map, track map)
addEntity(st, entity) ==
  [entities |-> [id \in DOMAIN st.entities \cup {entity.id} |->
                   IF id = entity.id THEN entity ELSE st.entities[id]],
   tracks |-> IF entity.currentTrack # None
              THEN setTrackOccupied(st.tracks, entity.currentTrack, TRUE)
              ELSE st.tracks]

RECURSIVE addEntities(_, _, _)
addEntities(st, seq, i) ==
  IF i > Len(seq) THEN st ELSE addEntities(addEntity(st, seq[i]), seq, i + 1)

IdleDragState ==
  [isDragging |-> FALSE, draggedCar |-> None, dragOffset |-> Vec(0, 0)]

\* BaseSplineRailyardScene.loadLevel: new systems, filled with the level's
\* own track and entity objects
loadLevel(level) ==
  LET ts == addConnections(
              addTracks([tracks |-> <<>>, connections |-> <<>>],
                        level.tracks, 1),
              level.connections, 1)
      st == addEntities([entities |-> <<>>, tracks |-> ts.tracks],
                        level.locomotives \o level.trainCars, 1)
  IN  [tracks |-> st.tracks, connections |-> ts.connections,
       entities |-> st.entities, dragState |-> IdleDragState]

Impls == {"EntitySystem", "LocomotiveSystem"}

\* the game after new Game(): GameStateManager's initial gameState, the main
\* menu set as the scene, and the first frame requested by start().
\* sceneInstance numbers the level scenes created so far; completionTimers
\* holds the instance number of every pending completion timeout of a level
\* scene; completionsReported and nextLevelCalls count, for the level scene
\* created last, the completions it has reported and the nextLevel() calls
\* its timeouts have made; pc is the place the running frame has reached in
\* the level scene's handleInput ("idle" between frames) and input is the
\* input state of that frame
GameStart ==
  [currentState |-> "MAIN_MENU", isRunning |-> FALSE, isPaused |-> FALSE,
   currentLevel |-> 1, currentLevelId |-> 1, currentScene |-> "mainMenu",
   sceneInstance |-> 0, frameRequested |-> TRUE, isLevelComplete |-> FALSE,
   completionTimers |-> <<>>, levelCompleteTimers |-> 0,
   completionsReported |-> 0, nextLevelCalls |-> 0, frames |-> 0,
   pauses |-> 0, pc |-> "idle",
   input |-> [isDown |-> FALSE, entity |-> "none",
              position |-> [x |-> 0, y |-> 0], key |-> "none"]]

\* the scene after construction: the mouse was up on the last frame and
\* neither of its systems has a drag session open
SceneIdle ==
  [lastMouseDown |-> FALSE, trainCarDragging |-> FALSE,
   locomotiveDragging |-> FALSE]

Init ==
  LET s == loadLevel(Level)
  IN  /\ impl \in Impls
      /\ tracks = s.tracks
      /\ connections = s.connections
      /\ entities = s.entities
      /\ dragState = s.dragState
      /\ lastOp = "loadLevel"
      /\ lastArg = None
      /\ lastResult = "void"
      /\ linkResult = [entity1 |-> None, entity2 |-> None,
                       returned |-> "none", changed |-> FALSE]
      /\ ops = 0
      /\ scene = SceneIdle
      /\ game = GameStart

---------------------------------------------------------------------------
(* EntitySystem / BaseLinkableEntitySystem: helpers.  Operators that read   *)
(* or change entities take the entity map es and return the new map.        *)

isTrainCar(entity) == entity.type # LOCOMOTIVE

isLocomotive(entity) == entity.type = LOCOMOTIVE

\* isDraggable that never looks at isCompleted
isDraggable_ignoringCompletion(entity) ==
  isLocomotive(entity) \/ isTrainCar(entity)

\* EntitySystem: a car is draggable unless completed; LocomotiveSystem:
\* every entity is draggable
isDraggable(entity) ==
  IF impl = "EntitySystem"
  THEN (IF isLocomotive(entity) THEN TRUE ELSE ~entity.isCompleted)
  ELSE TRUE

getEntitySize(entity) ==
  IF isLocomotive(entity)
  THEN [width |-> entity.size.x, height |-> entity.size.y]
  ELSE [width |-> TRAIN_CAR_WIDTH * Scale, height |-> TRAIN_CAR_HEIGHT * Scale]

\* top-left corner of an entity whose centre is at splinePos
cornerOf(entity, splinePos) ==
  Vec(splinePos.x - getEntitySize(entity).width \div 2,
      splinePos.y - getEntitySize(entity).height \div 2)

getPixelDistanceBetweenEntities(entity1, entity2) ==
  IF entity1.currentTrack # entity2.currentTrack THEN Infinity
  ELSE IF entity1.currentTrack \notin DOMAIN tracks THEN Infinity
  ELSE calculateDistance(
         getPositionOnSpline(tracks[entity1.currentTrack].spline,
                             entity1.trackProgress),
         getPositionOnSpline(tracks[entity1.currentTrack].spline,
                             entity2.trackProgress))

getEdgeToEdgeDistance(entity1, entity2) ==
  LET centerDistance == getPixelDistanceBetweenEntities(entity1, entity2)
  IN  IF centerDistance = Infinity THEN Infinity
      ELSE Max(0, centerDistance - getEntitySize(entity1).width \div 2
                                 - getEntitySize(entity2).width \div 2)

\* sum of the lengths of the sample segments lo .. hi-1
RECURSIVE totalLength(_, _, _)
totalLength(spline, lo, hi) ==
  IF hi <= lo THEN 0
  ELSE IF hi = lo + 1
  THEN calculateDistance(
         getPositionOnSpline(spline, (lo * PMax) \div LengthSamples),
         getPositionOnSpline(spline, ((lo + 1) * PMax) \div LengthSamples))
  ELSE totalLength(spline, lo, (lo + hi) \div 2)
         + totalLength(spline, (lo + hi) \div 2, hi)

pixelDistanceToProgressDelta(pixelDistance, trackId) ==
  IF trackId \notin DOMAIN tracks THEN 0
  ELSE (pixelDistance * PMax)
         \div totalLength(tracks[trackId].spline, 0, LengthSamples)

\* the breadth-first walk over linkedCars shared by getAllLinkedEntityIds
\* and setLinkedEntitiesDragging: the set of ids taken from the queue
RECURSIVE walkLinked(_, _, _)
walkLinked(es, queue, visited) ==
  IF Len(queue) = 0 THEN visited
  ELSE LET currentId == Head(queue)
           rest == Tail(queue)
       IN  IF currentId \in visited THEN walkLinked(es, rest, visited)
           ELSE IF currentId \notin DOMAIN es
                THEN walkLinked(es, rest, visited \cup {currentId})
           ELSE walkLinked(es,
                  rest \o SelectSeq(es[currentId].linkedCars,
                            LAMBDA l : l \notin visited \cup {currentId}),
                  visited \cup {currentId})

\* EntitySystem's set holds the entity itself, the base class's does not
getAllLinkedEntityIds(es, entity) ==
  IF impl = "EntitySystem"
  THEN walkLinked(es, <<entity.id>>, {})
  ELSE (walkLinked(es, <<entity.id>>, {}) \cap DOMAIN es) \ {entity.id}

setLinkedEntitiesDragging(es, entity, flag) ==
  LET reached == walkLinked(es, <<entity.id>>, {})
  IN  [id \in DOMAIN es |->
         IF id \in reached /\ id # entity.id
         THEN [es[id] EXCEPT !.isDragging = flag]
         ELSE es[id]]

\* a variant that never reports another entity on the track
isTrackOccupiedByOtherEntity_never(es, trackId, excludeEntityId) == FALSE

isTrackOccupiedByOtherEntity(es, trackId, excludeEntityId) ==
  \E id \in DOMAIN es : id # excludeEntityId /\ es[id].currentTrack = trackId

NoResult == [trackId |-> None, t |-> 0, position |-> Vec(0, 0), distance |-> 0]

RECURSIVE closestOver(_, _, _, _, _, _)
closestOver(es, tracksToCheck, i, targetPosition, draggedId, bestResult) ==
  IF i > Len(tracksToCheck) THEN bestResult
  ELSE LET trackId == tracksToCheck[i]
           skip == \/ trackId \notin DOMAIN tracks
                   \/ /\ trackId # tracksToCheck[1]
                      /\ isTrackOccupiedByOtherEntity(es, trackId, draggedId)
           result == findClosestPointOnSpline(tracks[trackId].spline,
                                              targetPosition)
       IN  closestOver(es, tracksToCheck, i + 1, targetPosition, draggedId,
             IF skip THEN bestResult
             ELSE IF bestResult.trackId = None
                     \/ result.distance < bestResult.distance
                  THEN [trackId |-> trackId, t |-> result.t,
                        position |-> result.position,
                        distance |-> result.distance]
                  ELSE bestResult)

findClosestSplinePosition(es, targetPosition, currentTrackId, draggedId) ==
  closestOver(es, <<currentTrackId>> \o getConnectedTracks(currentTrackId), 1,
              targetPosition, draggedId, NoResult)

---------------------------------------------------------------------------
(* Collision check, linking, repositioning *)

\* getAllEntities().filter(...): the other entities of the moving entity's
\* track that are not in its chain, in Map order
entitiesOnSameTrack(es, movingEntity, linkedEntityIds) ==
  SelectSeq(EntityOrder,
            LAMBDA id : /\ es[id].currentTrack = movingEntity.currentTrack
                        /\ id # movingEntity.id
                        /\ id \notin linkedEntityIds)

RECURSIVE collisionsFrom(_, _, _, _, _)
collisionsFrom(es, movingEntity, targetProgress, others, i) ==
  IF i > Len(others)
  THEN [canMove |-> TRUE, adjustedProgress |-> targetProgress,
        linkedEntity |-> None]
  ELSE LET otherEntity == es[others[i]]
           edgeDistance ==
             getEdgeToEdgeDistance(
               [movingEntity EXCEPT !.trackProgress = targetProgress],
               otherEntity)
           requiredCenterDistance ==
             getEntitySize(movingEntity).width \div 2
               + getEntitySize(otherEntity).width \div 2
               + minEdgeSeparation * Scale
           pushDirection ==
             IF targetProgress > otherEntity.trackProgress THEN 1 ELSE -1
           adjustedProgress ==
             otherEntity.trackProgress
               + pushDirection
                   * pixelDistanceToProgressDelta(requiredCenterDistance,
                                                  movingEntity.currentTrack)
       IN  IF /\ edgeDistance <= LINKING_DISTANCE * Scale
              /\ ~Includes(movingEntity.linkedCars, otherEntity.id)
           THEN [canMove |-> TRUE, adjustedProgress |-> targetProgress,
                 linkedEntity |-> otherEntity.id]
           ELSE IF /\ edgeDistance < minEdgeSeparation * Scale
                   /\ movingEntity.currentTrack \in DOMAIN tracks
           THEN [canMove |-> TRUE,
                 adjustedProgress |-> Max(0, Min(PMax, adjustedProgress)),
                 linkedEntity |-> None]
           ELSE collisionsFrom(es, movingEntity, targetProgress, others,
                               i + 1)

checkCollisionsForLinkedEntity(es, movingEntity, targetProgress) ==
  IF movingEntity.currentTrack = None
  THEN [canMove |-> TRUE, adjustedProgress |-> targetProgress,
        linkedEntity |-> None]
  ELSE collisionsFrom(es, movingEntity, targetProgress,
                      entitiesOnSameTrack(
                        es, movingEntity,
                        getAllLinkedEntityIds(es, movingEntity)),
                      1)

\* the bisection of positionEntityAtFixedDistance; the midpoint is rounded
\* down to a whole progress unit
RECURSIVE bisect(_, _, _, _, _)
bisect(spline, refProgress, targetDistance, shouldBeToTheRight, b) ==
  IF b.iteration >= BinarySearchIterations THEN b.bestProgress
  ELSE LET midProgress == (b.minProgress + b.maxProgress) \div 2
           distance == calculateDistance(
                         getPositionOnSpline(spline, midProgress),
                         getPositionOnSpline(spline, refProgress))
           better == Abs(distance - targetDistance)
                       < Abs(b.bestDistance - targetDistance)
           below == distance < targetDistance
       IN  bisect(spline, refProgress, targetDistance, shouldBeToTheRight,
             [minProgress |-> IF shouldBeToTheRight = below THEN midProgress
                              ELSE b.minProgress,
              maxProgress |-> IF shouldBeToTheRight = below THEN b.maxProgress
                              ELSE midProgress,
              bestProgress |-> IF better THEN midProgress ELSE b.bestProgress,
              bestDistance |-> IF better THEN distance ELSE b.bestDistance,
              iteration |-> b.iteration + 1])

positionEntityAtFixedDistance(es, referenceId, positionId) ==
  LET referenceEntity == es[referenceId]
      entityToPosition == es[positionId]
  IN  IF \/ referenceEntity.currentTrack = None
         \/ referenceEntity.currentTrack # entityToPosition.currentTrack
         \/ referenceEntity.currentTrack \notin DOMAIN tracks
      THEN es
      ELSE LET spline == tracks[referenceEntity.currentTrack].spline
               targetDistance ==
                 getEntitySize(referenceEntity).width \div 2
                   + getEntitySize(entityToPosition).width \div 2
                   + desiredGap * Scale
               currentRefPos ==
                 getPositionOnSpline(spline, referenceEntity.trackProgress)
               currentEntityPos ==
                 getPositionOnSpline(spline, entityToPosition.trackProgress)
               shouldBeToTheRight == currentEntityPos.x > currentRefPos.x
               bestProgress ==
                 bisect(spline, referenceEntity.trackProgress, targetDistance,
                        shouldBeToTheRight,
                        [minProgress |-> IF shouldBeToTheRight
                                         THEN referenceEntity.trackProgress
                                         ELSE 0,
                         maxProgress |-> IF shouldBeToTheRight THEN PMax
                                         ELSE referenceEntity.trackProgress,
                         bestProgress |-> entityToPosition.trackProgress,
                         bestDistance |-> Infinity,
                         iteration |-> 0])
           IN  [es EXCEPT
                  ![positionId].trackProgress = bestProgress,
                  ![positionId].position =
                     cornerOf(entityToPosition,
                              getPositionOnSpline(spline, bestProgress))]

\* linkLocomotiveToTrainCar without the capacity check
linkLocomotiveToTrainCar_noCapacityCheck(es, locomotiveId, carId) ==
  LET locomotive == es[locomotiveId]
      car == es[carId]
  IN  IF ~Includes(locomotive.acceptedCarTypes, car.type)
      THEN [ok |-> FALSE, entities |-> es]
      ELSE [ok |-> TRUE,
            entities |->
              positionEntityAtFixedDistance(
                [es EXCEPT
                   ![locomotiveId].linkedCars = Append(@, carId),
                   ![locomotiveId].linkedToBack = carId,
                   ![carId].linkedCars = Append(@, locomotiveId),
                   ![carId].linkedToFront = locomotiveId,
                   ![carId].isCompleted = car.targetLocomotive = locomotiveId],
                locomotiveId, carId)]

\* EntitySystem completes the car only on its target locomotive; the base
\* class completes it on any locomotive and rewrites the target
\* a variant in which the car forgets its earlier links when it is coupled
linkLocomotiveToTrainCar_replacingLinks(es, locomotiveId, carId) ==
  LET locomotive == es[locomotiveId]
      car == es[carId]
  IN  IF ~Includes(locomotive.acceptedCarTypes, car.type)
      THEN [ok |-> FALSE, entities |-> es]
      ELSE IF Len(locomotive.linkedCars) >= locomotive.maxCars
      THEN [ok |-> FALSE, entities |-> es]
      ELSE LET es1 ==
                 [es EXCEPT
                    ![locomotiveId].linkedCars = Append(@, carId),
                    ![locomotiveId].linkedToBack = carId,
                    ![carId].linkedCars = <<locomotiveId>>,
                    ![carId].linkedToFront = locomotiveId,
                    ![carId].isCompleted =
                       IF impl = "EntitySystem"
                       THEN car.targetLocomotive = locomotiveId
                       ELSE TRUE,
                    ![carId].targetLocomotive =
                       IF impl = "EntitySystem" THEN @ ELSE locomotiveId]
           IN  [ok |-> TRUE,
                entities |-> positionEntityAtFixedDistance(es1, locomotiveId,
                                                           carId)]

linkLocomotiveToTrainCar(es, locomotiveId, carId) ==
  LET locomotive == es[locomotiveId]
      car == es[carId]
  IN  IF ~Includes(locomotive.acceptedCarTypes, car.type)
      THEN [ok |-> FALSE, entities |-> es]
      ELSE IF Len(locomotive.linkedCars) >= locomotive.maxCars
      THEN [ok |-> FALSE, entities |-> es]
      ELSE LET es1 ==
                 [es EXCEPT
                    ![locomotiveId].linkedCars = Append(@, carId),
                    ![locomotiveId].linkedToBack = carId,
                    ![carId].linkedCars = Append(@, locomotiveId),
                    ![carId].linkedToFront = locomotiveId,
                    ![carId].isCompleted =
                       IF impl = "EntitySystem"
                       THEN car.targetLocomotive = locomotiveId
                       ELSE TRUE,
                    ![carId].targetLocomotive =
                       IF impl = "EntitySystem" THEN @ ELSE locomotiveId]
           IN  [ok |-> TRUE,
                entities |-> positionEntityAtFixedDistance(es1, locomotiveId,
                                                           carId)]

\* a variant that makes the first car the front whatever the progress
linkTrainCars_firstIsFront(es, car1Id, car2Id) ==
  [ok |-> TRUE,
   entities |->
     positionEntityAtFixedDistance(
       [es EXCEPT ![car1Id].linkedToBack = car2Id,
                  ![car1Id].linkedCars = Append(@, car2Id),
                  ![car2Id].linkedToFront = car1Id,
                  ![car2Id].linkedCars = Append(@, car1Id)],
       car1Id, car2Id)]

\* a variant that records the link only in the first car's linkedCars
linkTrainCars_oneSided(es, car1Id, car2Id) ==
  [ok |-> TRUE,
   entities |-> [es EXCEPT ![car1Id].linkedCars = Append(@, car2Id)]]

linkTrainCars(es, car1Id, car2Id) ==
  LET frontCar == IF es[car1Id].trackProgress > es[car2Id].trackProgress
                  THEN car1Id ELSE car2Id
      backCar == IF es[car1Id].trackProgress > es[car2Id].trackProgress
                 THEN car2Id ELSE car1Id
      es1 == [es EXCEPT
                ![frontCar].linkedToBack = backCar,
                ![frontCar].linkedCars = Append(@, backCar),
                ![backCar].linkedToFront = frontCar,
                ![backCar].linkedCars = Append(@, frontCar)]
  IN  [ok |-> TRUE,
       entities |-> positionEntityAtFixedDistance(es1, frontCar, backCar)]

linkEntities(es, entity1Id, entity2Id) ==
  LET entity1 == es[entity1Id]
      entity2 == es[entity2Id]
  IN  IF \/ Includes(entity1.linkedCars, entity2Id)
         \/ Includes(entity2.linkedCars, entity1Id)
      THEN [ok |-> FALSE, entities |-> es]
      ELSE IF isLocomotive(entity1) /\ isTrainCar(entity2)
      THEN linkLocomotiveToTrainCar(es, entity1Id, entity2Id)
      ELSE IF isTrainCar(entity1) /\ isLocomotive(entity2)
      THEN linkLocomotiveToTrainCar(es, entity2Id, entity1Id)
      ELSE IF isTrainCar(entity1) /\ isTrainCar(entity2)
      THEN linkTrainCars(es, entity1Id, entity2Id)
      ELSE [ok |-> FALSE, entities |-> es]

RECURSIVE frontMost(_, _, _)
frontMost(es, frontId, visited) ==
  LET nextId == es[frontId].linkedToFront
  IN  IF nextId = None THEN frontId
      ELSE IF nextId \notin DOMAIN es \/ nextId \in visited THEN frontId
      ELSE frontMost(es, nextId, visited \cup {nextId})

\* a variant of the walk that steps to the first linked neighbour instead of
\* linkedToBack and does not consult the visited set; it gives up after
\* twice as many entities as there are
RECURSIVE chainFrom_noVisited(_, _, _, _)
chainFrom_noVisited(es, currentId, visited, acc) ==
  IF currentId = None \/ currentId \notin DOMAIN es \/ Len(acc) >= 2 * Cardinality(DOMAIN es)
  THEN acc
  ELSE chainFrom_noVisited(es,
         IF Len(es[currentId].linkedCars) = 0 THEN None
         ELSE es[currentId].linkedCars[1],
         visited, Append(acc, currentId))

RECURSIVE chainFrom(_, _, _, _)
chainFrom(es, currentId, visited, acc) ==
  IF currentId = None \/ currentId \notin DOMAIN es \/ currentId \in visited
  THEN acc
  ELSE chainFrom(es, es[currentId].linkedToBack, visited \cup {currentId},
                 Append(acc, currentId))

\* a variant that returns every entity of the system, in Map order
getLinkedEntitiesInOrder_everyEntity(es, startId) == EntityOrder

\* ids of the chain from its front-most entity backwards
getLinkedEntitiesInOrder(es, startId) ==
  chainFrom(es, frontMost(es, startId, {}), {}, <<>>)

\* a variant whose front-most member takes progress + delta without the clamp
RECURSIVE moveFrom_unclamped(_, _, _, _, _)
moveFrom_unclamped(es, linkedEntities, draggedId, deltaProgress, i) ==
  IF i > Len(linkedEntities) THEN es
  ELSE moveFrom_unclamped(
         IF linkedEntities[i] = draggedId THEN es
         ELSE IF i > 1
              THEN positionEntityAtFixedDistance(es, linkedEntities[i - 1],
                                                 linkedEntities[i])
              ELSE [es EXCEPT ![linkedEntities[i]].trackProgress =
                                 @ + deltaProgress],
         linkedEntities, draggedId, deltaProgress, i + 1)

RECURSIVE moveFrom(_, _, _, _, _)
moveFrom(es, linkedEntities, draggedId, deltaProgress, i) ==
  IF i > Len(linkedEntities) THEN es
  ELSE LET id == linkedEntities[i]
           newProgress ==
             Max(0, Min(PMax, es[id].trackProgress + deltaProgress))
           shifted ==
             [es EXCEPT
                ![id].trackProgress = newProgress,
                ![id].position =
                   IF es[id].currentTrack # None
                      /\ es[id].currentTrack \in DOMAIN tracks
                   THEN cornerOf(es[id],
                          getPositionOnSpline(tracks[es[id].currentTrack].spline,
                                              newProgress))
                   ELSE @]
       IN  moveFrom(
             IF id = draggedId THEN es
             ELSE IF i > 1
                  THEN positionEntityAtFixedDistance(es, linkedEntities[i - 1],
                                                     id)
                  ELSE shifted,
             linkedEntities, draggedId, deltaProgress, i + 1)

moveLinkedEntitiesRelative(es, draggedId, deltaProgress) ==
  moveFrom(es, getLinkedEntitiesInOrder(es, draggedId), draggedId,
           deltaProgress, 1)

\* EntitySystem checks both entities, both link lists and the car's target;
\* LocomotiveSystem checks the locomotive's link list only
checkLevelCompletion(es, requiredConnections) ==
  \A i \in 1..Len(requiredConnections) :
    LET carId == requiredConnections[i].carId
        locomotiveId == requiredConnections[i].locomotiveId
        hasLocomotive == locomotiveId \in DOMAIN es
                           /\ isLocomotive(es[locomotiveId])
        hasCar == carId \in DOMAIN es /\ isTrainCar(es[carId])
    IN  IF impl = "EntitySystem"
        THEN /\ hasCar
             /\ hasLocomotive
             /\ Includes(es[carId].linkedCars, locomotiveId)
             /\ Includes(es[locomotiveId].linkedCars, carId)
             /\ es[carId].targetLocomotive = locomotiveId
        ELSE /\ hasLocomotive
             /\ Includes(es[locomotiveId].linkedCars, carId)

---------------------------------------------------------------------------
(* Drag operations *)

NoLink == [entity1 |-> None, entity2 |-> None, returned |-> "none",
           changed |-> FALSE]

\* pointer positions of updateDrag, in pixels along the tracks' line
PointerXs == {160, 280, 420, 500, 640, 1000}

MousePoints == {Vec(x * Scale, trackY) : x \in PointerXs}

\* startDrag grabs an entity at its centre
GrabPoints(entityId) ==
  IF entityId \in DOMAIN entities
  THEN {Vec(entities[entityId].position.x
              + getEntitySize(entities[entityId]).width \div 2,
            entities[entityId].position.y
              + getEntitySize(entities[entityId]).height \div 2)}
  ELSE {Vec(0, 0)}

StartDragIds == EntityIds \cup {"no_such_entity"}

startDrag(entityId, mousePosition) ==
  IF entityId \notin DOMAIN entities THEN
    /\ lastResult' = "false"
    /\ UNCHANGED <<entities, dragState>>
  ELSE IF ~isDraggable(entities[entityId]) THEN
    /\ lastResult' = "false"
    /\ UNCHANGED <<entities, dragState>>
  ELSE
    /\ dragState' =
         [isDragging |-> TRUE, draggedCar |-> entityId,
          dragOffset |-> Vec(mousePosition.x - entities[entityId].position.x,
                             mousePosition.y - entities[entityId].position.y)]
    /\ entities' =
         setLinkedEntitiesDragging(
           [entities EXCEPT ![entityId].isDragging = TRUE],
           entities[entityId], TRUE)
    /\ lastResult' = "true"

StartDrag ==
  /\ ops < MaxOps
  /\ \E entityId \in StartDragIds :
       \E mousePosition \in GrabPoints(entityId) :
         /\ startDrag(entityId, mousePosition)
         /\ lastArg' = entityId
  /\ lastOp' = "startDrag"
  /\ linkResult' = NoLink
  /\ ops' = ops + 1
  /\ UNCHANGED <<impl, tracks, connections, scene, game>>

\* a variant whose idle branch clears leftover dragging flags instead of
\* returning at once
endDrag_noIdleReturn ==
  IF ~dragState.isDragging \/ dragState.draggedCar = None THEN
    /\ entities' = [id \in DOMAIN entities |->
                      [entities[id] EXCEPT !.isDragging = FALSE]]
    /\ dragState' = IdleDragState
  ELSE
    /\ entities' =
         [setLinkedEntitiesDragging(entities, entities[dragState.draggedCar],
                                    FALSE)
            EXCEPT ![dragState.draggedCar].isDragging = FALSE]
    /\ dragState' = IdleDragState

endDrag ==
  IF ~dragState.isDragging \/ dragState.draggedCar = None THEN
    UNCHANGED <<entities, dragState>>
  ELSE
    /\ entities' =
         [setLinkedEntitiesDragging(entities, entities[dragState.draggedCar],
                                    FALSE)
            EXCEPT ![dragState.draggedCar].isDragging = FALSE]
    /\ dragState' = IdleDragState

EndDrag ==
  /\ ops < MaxOps
  /\ endDrag
  /\ lastOp' = "endDrag"
  /\ lastArg' = None
  /\ lastResult' = "void"
  /\ linkResult' = NoLink
  /\ ops' = ops + 1
  /\ UNCHANGED <<impl, tracks, connections, scene, game>>

\* updateDrag, lines 504-516: the track assignment, given the entities after
\* the move
updateDragTrack(id, result, moved, link) ==
  LET trackChanged == result.trackId # moved[id].currentTrack
      available == ~isTrackOccupiedByOtherEntity(moved, result.trackId, id)
      cleared == IF moved[id].currentTrack # None
                 THEN setTrackOccupied(tracks, moved[id].currentTrack, FALSE)
                 ELSE tracks
  IN  [entities |->
         IF trackChanged /\ available
         THEN [moved EXCEPT ![id].currentTrack = result.trackId]
         ELSE moved,
       tracks |->
         IF ~trackChanged THEN tracks
         ELSE IF available
              THEN setTrackOccupied(cleared, result.trackId, TRUE)
              ELSE cleared,
       link |-> link]

\* updateDrag, lines 499-502: the chain follows when the move is large enough
updateDragMove(id, result, deltaProgress, placed, link) ==
  updateDragTrack(id, result,
                  IF Abs(deltaProgress) * MoveThresholdDen > PMax
                  THEN moveLinkedEntitiesRelative(placed, id, deltaProgress)
                  ELSE placed,
                  link)

\* updateDrag, lines 476-497: the dragged entity takes the final progress
updateDragPlace(id, result, finalProgress, linked, link) ==
  updateDragMove(id, result, finalProgress - entities[id].trackProgress,
                 [linked EXCEPT
                    ![id].trackProgress = finalProgress,
                    ![id].position =
                       IF result.trackId \in DOMAIN tracks
                       THEN cornerOf(entities[id],
                              getPositionOnSpline(tracks[result.trackId].spline,
                                                  finalProgress))
                       ELSE @],
                 link)

\* updateDrag, lines 471-474, given what linkEntities returned
updateDragLink(id, result, collisionResult, linked) ==
  updateDragPlace(id, result, collisionResult.adjustedProgress,
                  linked.entities,
                  IF collisionResult.linkedEntity = None THEN NoLink
                  ELSE [entity1 |-> id,
                        entity2 |-> collisionResult.linkedEntity,
                        returned |-> IF linked.ok THEN "true" ELSE "false",
                        changed |-> linked.entities # entities])

\* updateDrag, lines 464-474, given the collision result
updateDragCollision(id, result, collisionResult) ==
  updateDragLink(id, result, collisionResult,
                 IF collisionResult.linkedEntity # None
                 THEN linkEntities(entities, id, collisionResult.linkedEntity)
                 ELSE [ok |-> FALSE, entities |-> entities])

\* updateDrag, lines 464-517, given the closest spline position
updateDragFound(id, result) ==
  IF result.trackId = None
  THEN [entities |-> entities, tracks |-> tracks, link |-> NoLink]
  ELSE updateDragCollision(id, result,
         checkCollisionsForLinkedEntity(entities, entities[id], result.t))

\* the state after updateDrag(mousePosition) of an open session
updateDragResult(mousePosition) ==
  updateDragFound(
    dragState.draggedCar,
    findClosestSplinePosition(
      entities,
      Vec(mousePosition.x - dragState.dragOffset.x
            + getEntitySize(entities[dragState.draggedCar]).width \div 2,
          mousePosition.y - dragState.dragOffset.y
            + getEntitySize(entities[dragState.draggedCar]).height \div 2),
      entities[dragState.draggedCar].currentTrack,
      dragState.draggedCar))

updateDragApply(after) ==
  /\ entities' = after.entities
  /\ tracks' = after.tracks
  /\ linkResult' = after.link

updateDrag(mousePosition) ==
  IF ~dragState.isDragging \/ dragState.draggedCar = None THEN
    /\ linkResult' = NoLink
    /\ UNCHANGED <<entities, tracks>>
  ELSE updateDragApply(updateDragResult(mousePosition))

UpdateDrag ==
  /\ ops < MaxOps
  /\ \E mousePosition \in MousePoints : updateDrag(mousePosition)
  /\ lastOp' = "updateDrag"
  /\ lastArg' = None
  /\ lastResult' = "void"
  /\ ops' = ops + 1
  /\ UNCHANGED <<impl, connections, dragState, scene, game>>

Next == StartDrag \/ UpdateDrag \/ EndDrag

Spec == Init /\ [][Next]_vars

---------------------------------------------------------------------------
(* The scene: play and level reset *)

\* gameState.level after play: the level keeps the very track and entity
\* objects that the systems mutate
currentLevel ==
  [tracks |-> [i \in 1..Len(Level.tracks) |-> tracks[Level.tracks[i].id]],
   connections |-> Level.connections,
   locomotives |-> [i \in 1..Len(Level.locomotives) |->
                      entities[Level.locomotives[i].id]],
   trainCars |-> [i \in 1..Len(Level.trainCars) |->
                    entities[Level.trainCars[i].id]],
   requiredConnections |-> Level.requiredConnections]

\* resetLevel: loadLevel(this.gameState.level); s is what loadLevel builds
resetLevel(s) ==
  /\ tracks' = s.tracks
  /\ connections' = s.connections
  /\ entities' = s.entities
  /\ dragState' = s.dragState

ResetLevel ==
  /\ ops < MaxOps
  /\ resetLevel(loadLevel(currentLevel))
  /\ lastOp' = "resetLevel"
  /\ lastArg' = None
  /\ lastResult' = "void"
  /\ linkResult' = NoLink
  /\ ops' = ops + 1
  /\ UNCHANGED <<impl, scene, game>>

NextScene == StartDrag \/ UpdateDrag \/ EndDrag \/ ResetLevel

SpecScene == Init /\ [][NextScene]_vars

---------------------------------------------------------------------------
(* Properties *)

\* the chain of an entity: everything reachable over linkedCars
ChainOf(id) == walkLinked(entities, <<id>>, {})

\* the locomotive and the car of the last link attempt, when it paired one
\* of each
AttemptLocomotive ==
  IF linkResult.entity1 = None THEN None
  ELSE IF isLocomotive(entities[linkResult.entity1])
          /\ isTrainCar(entities[linkResult.entity2])
  THEN linkResult.entity1
  ELSE IF isTrainCar(entities[linkResult.entity1])
          /\ isLocomotive(entities[linkResult.entity2])
  THEN linkResult.entity2
  ELSE None

AttemptCar ==
  IF AttemptLocomotive = None THEN None
  ELSE IF AttemptLocomotive = linkResult.entity1 THEN linkResult.entity2
  ELSE linkResult.entity1

\* C1: link symmetry.  In every state of EntitySystem reachable by startDrag,
\* updateDrag and endDrag, for all entities a and b, a.linkedToFront = b.id
\* exactly when b.linkedToBack = a.id.
C1_LinkSymmetry ==
  impl = "EntitySystem" =>
    \A a, b \in EntityIds :
      (entities[a].linkedToFront = b) <=> (entities[b].linkedToBack = a)

RECURSIVE follow(_, _, _)
follow(id, backwards, k) ==
  IF k = 0 \/ id = None THEN id
  ELSE follow(IF backwards THEN entities[id].linkedToBack
              ELSE entities[id].linkedToFront,
              backwards, k - 1)

\* C2: every chain of EntitySystem is a simple path.  No entity has more than
\* one front and one back neighbour: its linkedCars has at most two entries,
\* which are its linkedToFront and its linkedToBack; and following the links
\* from an entity never leads back to it.
C2_SimplePath ==
  impl = "EntitySystem" =>
    \A e \in EntityIds :
      /\ Len(entities[e].linkedCars) <= 2
      /\ {entities[e].linkedCars[i] : i \in 1..Len(entities[e].linkedCars)}
           = {entities[e].linkedToFront, entities[e].linkedToBack} \ {None}
      /\ \A k \in 1..Cardinality(EntityIds) :
           follow(e, TRUE, k) # e /\ follow(e, FALSE, k) # e

\* C3: no overlap.  After any updateDrag of an open session of EntitySystem,
\* the centre distance minus the two half widths, between the dragged entity
\* and every entity on its track that is not linked to it, is at least 0.
C3_NoOverlap ==
  (impl = "EntitySystem" /\ lastOp = "updateDrag" /\ dragState.isDragging) =>
    \A o \in EntityIds :
      LET d == entities[dragState.draggedCar]
      IN  (/\ o # d.id
           /\ o \notin ChainOf(d.id)
           /\ entities[o].currentTrack = d.currentTrack)
          => getPixelDistanceBetweenEntities(d, entities[o])
               - getEntitySize(d).width \div 2
               - getEntitySize(entities[o]).width \div 2 >= 0

\* C4: a locomotive-car link attempt whose car type the locomotive does not
\* accept, or whose locomotive already has maxCars linked cars, returns
\* false and changes no entity: linkedCars, linkedToFront, linkedToBack and
\* isCompleted of both, and the progress of the entity not being dragged,
\* are as before.
C4_RejectedLinkChangesNothing ==
  [][\A l, c \in EntityIds :
       (/\ lastOp' = "updateDrag"
        /\ AttemptLocomotive' = l
        /\ AttemptCar' = c
        /\ \/ ~Includes(entities[l].acceptedCarTypes, entities[c].type)
           \/ Len(entities[l].linkedCars) >= entities[l].maxCars)
       => /\ linkResult'.returned = "false"
          /\ ~linkResult'.changed
          /\ \A e \in {l, c} :
               /\ entities'[e].linkedCars = entities[e].linkedCars
               /\ entities'[e].linkedToFront = entities[e].linkedToFront
               /\ entities'[e].linkedToBack = entities[e].linkedToBack
               /\ entities'[e].isCompleted = entities[e].isCompleted
               /\ (e # dragState.draggedCar
                     => entities'[e].trackProgress = entities[e].trackProgress)
  ]_vars

\* a link attempt on a locomotive that accepts the car's type and is full
C4_Witness ==
  /\ lastOp = "updateDrag"
  /\ AttemptLocomotive # None
  /\ linkResult.returned = "false"
  /\ Includes(entities[AttemptLocomotive].acceptedCarTypes,
              entities[AttemptCar].type)
  /\ ~Includes(entities[AttemptLocomotive].linkedCars, AttemptCar)
  /\ Len(entities[AttemptLocomotive].linkedCars)
       >= entities[AttemptLocomotive].maxCars

\* C5: wrong coupling.  A link attempt between a car and a locomotive that
\* is not the car's targetLocomotive, accepts its type and has spare
\* capacity returns true, links the two, and leaves the car's isCompleted
\* false; a link completes a car only on its declared target.
C5_WrongCoupling ==
  [][\A l, c \in EntityIds :
       (/\ lastOp' = "updateDrag"
        /\ AttemptLocomotive' = l
        /\ AttemptCar' = c
        /\ Includes(entities[l].acceptedCarTypes, entities[c].type)
        /\ Len(entities[l].linkedCars) < entities[l].maxCars
        /\ entities[c].targetLocomotive # l)
       => /\ linkResult'.returned = "true"
          /\ Includes(entities'[l].linkedCars, c)
          /\ Includes(entities'[c].linkedCars, l)
          /\ ~entities'[c].isCompleted
  ]_vars

\* C6: EntitySystem.startDrag with an id that is not registered, or with a
\* car whose isCompleted is true (also one completed during play), returns
\* false and leaves the drag session and every entity unchanged.
\* (LocomotiveSystem.isDraggable accepts every entity; the statement is about
\* EntitySystem.startDrag and EntitySystem.isDraggable.)
C6_StartDragRefused ==
  [][(/\ impl = "EntitySystem"
      /\ lastOp' = "startDrag"
      /\ \/ lastArg' \notin DOMAIN entities
         \/ /\ lastArg' \in DOMAIN entities
            /\ isTrainCar(entities[lastArg'])
            /\ entities[lastArg'].isCompleted)
     => /\ lastResult' = "false"
        /\ dragState' = dragState
        /\ entities' = entities
  ]_vars

\* startDrag was called on a car completed during play, and refused
C6_Witness ==
  /\ impl = "EntitySystem"
  /\ lastOp = "startDrag"
  /\ lastArg \in DOMAIN entities
  /\ isTrainCar(entities[lastArg])
  /\ entities[lastArg].isCompleted
  /\ lastResult = "false"

\* C7: startDrag while a session is open is a no-op: the session owner, the
\* stored pointer offset and every entity's isDragging are as before.
C7_StartDragWhileDraggingNoOp ==
  [][(lastOp' = "startDrag" /\ dragState.isDragging)
     => /\ dragState'.draggedCar = dragState.draggedCar
        /\ dragState'.dragOffset = dragState.dragOffset
        /\ \A e \in EntityIds :
             entities'[e].isDragging = entities[e].isDragging
  ]_vars

\* C8: in every state of EntitySystem, when the session is Idle no entity
\* has isDragging; when it is Dragging there is one owner, and every entity
\* with isDragging is the owner or a member of the owner's chain.
C8_DraggingFlags ==
  impl = "EntitySystem" =>
    /\ ~dragState.isDragging => \A e \in EntityIds : ~entities[e].isDragging
    /\ dragState.isDragging =>
         /\ dragState.draggedCar \in EntityIds
         /\ \A e \in EntityIds :
              entities[e].isDragging => e \in ChainOf(dragState.draggedCar)

\* the rule of level completion for one list of required pairs
CompletionRule(requiredPairs) ==
  \A i \in 1..Len(requiredPairs) :
    LET carId == requiredPairs[i].carId
        locomotiveId == requiredPairs[i].locomotiveId
    IN  /\ carId \in DOMAIN entities
        /\ isTrainCar(entities[carId])
        /\ locomotiveId \in DOMAIN entities
        /\ isLocomotive(entities[locomotiveId])
        /\ Includes(entities[locomotiveId].linkedCars, carId)
        /\ Includes(entities[carId].linkedCars, locomotiveId)
        /\ entities[carId].targetLocomotive = locomotiveId

\* lists of required pairs: the level's own, the empty list, and every
\* single pair over the entities and an id that names none
RequiredPairsInputs ==
  {Level.requiredConnections, <<>>}
    \cup {<<[carId |-> c, locomotiveId |-> l]>> :
            c \in EntityIds \cup {"no_such_entity"},
            l \in EntityIds \cup {"no_such_entity"}}

\* C9: checkLevelCompletion(requiredPairs) is true exactly when, for every
\* required pair, both entities exist, each is in the other's linkedCars,
\* and the car's targetLocomotive is the required locomotive.
C9_CompletionRule ==
  \A requiredPairs \in RequiredPairsInputs :
    checkLevelCompletion(entities, requiredPairs)
      <=> CompletionRule(requiredPairs)

\* the state right after the initial load
InitialLoad == loadLevel(Level)

\* C10: after resetLevel every entity's currentTrack, trackProgress, links,
\* isCompleted and isDragging, and every track's occupancy, are those of
\* the initial load.
C10_ResetRestoresInitialLoad ==
  lastOp = "resetLevel" =>
    /\ \A e \in EntityIds :
         /\ entities[e].currentTrack = InitialLoad.entities[e].currentTrack
         /\ entities[e].trackProgress = InitialLoad.entities[e].trackProgress
         /\ entities[e].linkedCars = InitialLoad.entities[e].linkedCars
         /\ entities[e].linkedToFront = InitialLoad.entities[e].linkedToFront
         /\ entities[e].linkedToBack = InitialLoad.entities[e].linkedToBack
         /\ entities[e].isCompleted = InitialLoad.entities[e].isCompleted
         /\ entities[e].isDragging = InitialLoad.entities[e].isDragging
    /\ \A t \in DOMAIN tracks :
         tracks[t].occupied = InitialLoad.tracks[t].occupied

\* C11: the whole train moves coherently.  In every state of EntitySystem all
\* entities of one chain have the same currentTrack, also after an updateDrag
\* that takes the dragged member to a neighbouring track or makes a link.
C11_ChainOnOneTrack ==
  impl = "EntitySystem" =>
    \A a \in EntityIds :
      \A b \in ChainOf(a) \cap EntityIds :
        entities[a].currentTrack = entities[b].currentTrack

\* centre of an entity on the spline of its own track, in state es / trks
centreOf(es, trks, id) ==
  getPositionOnSpline(trks[es[id].currentTrack].spline, es[id].trackProgress)

\* the fixed target distance of positionEntityAtFixedDistance for two entities
targetDistanceOf(es, a, b) ==
  getEntitySize(es[a]).width \div 2 + getEntitySize(es[b]).width \div 2
    + desiredGap * Scale

\* C12: when updateDrag of EntitySystem changes the dragged entity's progress
\* by more than the threshold, every other member of its chain, front to
\* back, ends at the fixed target distance (half widths plus the gap, to the
\* half pixel) from the member in front of it, and the front-most member is
\* not moved by the dragged entity's progress delta.
C12_ChainRepositioned ==
  [][(/\ impl = "EntitySystem"
      /\ lastOp' = "updateDrag"
      /\ dragState.isDragging
      /\ Abs(entities'[dragState.draggedCar].trackProgress
               - entities[dragState.draggedCar].trackProgress)
           * MoveThresholdDen > PMax)
     => LET d == dragState.draggedCar
            delta == entities'[d].trackProgress - entities[d].trackProgress
            order == getLinkedEntitiesInOrder(entities', d)
        IN  \A i \in 1..Len(order) :
              order[i] # d =>
                IF i = 1
                THEN entities'[order[1]].trackProgress
                       # Max(0, Min(PMax, entities[order[1]].trackProgress
                                            + delta))
                ELSE Abs(calculateDistance(centreOf(entities', tracks', order[i]),
                                           centreOf(entities', tracks',
                                                    order[i - 1]))
                           - targetDistanceOf(entities', order[i - 1], order[i]))
                       <= 1
  ]_vars

\* C13: when updateDrag of EntitySystem links two entities of one track, then
\* on return the two sit at the fixed target distance from each other (half
\* widths plus the 8 px gap, to the half pixel), whichever was dragged.
C13_LinkedAtTargetDistance ==
  [][(/\ impl = "EntitySystem"
      /\ lastOp' = "updateDrag"
      /\ linkResult'.returned = "true"
      /\ linkResult'.changed
      /\ entities'[linkResult'.entity1].currentTrack
           = entities'[linkResult'.entity2].currentTrack)
     => Abs(calculateDistance(
              centreOf(entities', tracks', linkResult'.entity1),
              centreOf(entities', tracks', linkResult'.entity2))
            - targetDistanceOf(entities', linkResult'.entity1,
                               linkResult'.entity2)) <= 1
  ]_vars

\* the target position updateDrag computes from the pointer (lines 451-456)
dragTarget(mousePosition) ==
  Vec(mousePosition.x - dragState.dragOffset.x
        + getEntitySize(entities[dragState.draggedCar]).width \div 2,
      mousePosition.y - dragState.dragOffset.y
        + getEntitySize(entities[dragState.draggedCar]).height \div 2)

\* the candidate of updateDrag: what the closest-position search returns for
\* the pointer (lines 459-462)
candidateOf(mousePosition) ==
  findClosestSplinePosition(entities, dragTarget(mousePosition),
                            entities[dragState.draggedCar].currentTrack,
                            dragState.draggedCar)

\* edge-to-edge distance from a candidate position to an entity
edgeToCandidate(result, id, other) ==
  Max(0, calculateDistance(result.position, centreOf(entities, tracks, other))
           - getEntitySize(entities[id]).width \div 2
           - getEntitySize(entities[other]).width \div 2)

\* C14: updateDrag of EntitySystem links the dragged entity to another entity
\* only if that entity is on the candidate track the closest-position search
\* returned, is not already in the dragged entity's chain, and is at most the
\* linking threshold (50 px, edge to edge) from the candidate position.
C14_LinkOnlyNearCandidate ==
  [][(/\ impl = "EntitySystem"
      /\ lastOp' = "updateDrag"
      /\ dragState.isDragging
      /\ linkResult'.returned = "true")
     => \A mousePosition \in MousePoints :
          updateDragResult(mousePosition).entities = entities'
            => /\ entities[linkResult'.entity2].currentTrack
                    = candidateOf(mousePosition).trackId
               /\ linkResult'.entity2
                    \notin walkLinked(entities, <<dragState.draggedCar>>, {})
               /\ edgeToCandidate(candidateOf(mousePosition),
                                  dragState.draggedCar, linkResult'.entity2)
                    <= LINKING_DISTANCE * Scale
  ]_vars

C16_OccupiedIffEntityOnTrack ==
  impl = "EntitySystem" =>
    \A trackId \in DOMAIN tracks :
      tracks[trackId].occupied
        <=> \E id \in EntityIds : entities[id].currentTrack = trackId

\* C17: every entity's trackProgress lies within [0,1] (0 .. PMax progress
\* units) in every reachable state: from level load onward and after every
\* updateDrag, link repositioning and chain propagation.
C17_ProgressInUnitInterval ==
  \A id \in EntityIds :
    /\ entities[id].trackProgress >= 0
    /\ entities[id].trackProgress <= PMax

\* an updateDrag has just moved a chain whose front-most member is not the
\* dragged entity and now rests against the end of the track
C17_Witness ==
  /\ lastOp = "updateDrag"
  /\ dragState.isDragging
  /\ \E id \in EntityIds \ {dragState.draggedCar} :
       /\ id \in ChainOf(dragState.draggedCar)
       /\ entities[id].trackProgress \in {0, PMax}

\* C18: in every state of EntitySystem a car with isCompleted = true is linked
\* to a locomotive whose id is the car's targetLocomotive, and is linked to no
\* other locomotive.
C18_CompletedOnlyWithTarget ==
  impl = "EntitySystem" =>
    \A c \in EntityIds :
      (isTrainCar(entities[c]) /\ entities[c].isCompleted) =>
        /\ entities[c].targetLocomotive \in EntityIds
        /\ isLocomotive(entities[entities[c].targetLocomotive])
        /\ Includes(entities[c].linkedCars, entities[c].targetLocomotive)
        /\ \A l \in EntityIds :
             (isLocomotive(entities[l]) /\ Includes(entities[c].linkedCars, l))
               => l = entities[c].targetLocomotive

\* C19: once a car's isCompleted is true in EntitySystem it is true in every
\* later state of the level, whatever is dragged and linked afterwards.
C19_CompletedStaysCompleted ==
  [][impl = "EntitySystem" =>
       \A c \in EntityIds :
         (isTrainCar(entities[c]) /\ entities[c].isCompleted)
           => entities'[c].isCompleted
  ]_vars

---------------------------------------------------------------------------
(* Level configurations with isDraggable overrides *)

\* a locomotive or car entry of a level configuration that also carries the
\* optional isDraggable property ("true", "false", or "unset" when absent)
withIsDraggable(c, v) ==
  [f \in DOMAIN c \cup {"isDraggable"} |->
     IF f = "isDraggable" THEN v ELSE c[f]]

\* the level 1 configuration with isDraggable set the way RailyardLevel2Scene
\* sets it: one locomotive and one car not draggable, one locomotive
\* draggable, and one car left without the property
OverrideConfig ==
  [LevelConfig EXCEPT
     !.locomotives = <<withIsDraggable(@[1], "true"),
                       withIsDraggable(@[2], "false")>>,
     !.cars = <<withIsDraggable(@[1], "unset"),
                withIsDraggable(@[2], "false")>>]

\* what the configuration says about the entity with this id
configIsDraggable(config, id) ==
  IF \E i \in 1..Len(config.locomotives) : config.locomotives[i].id = id
  THEN config.locomotives[CHOOSE i \in 1..Len(config.locomotives) :
                            config.locomotives[i].id = id].isDraggable
  ELSE IF \E i \in 1..Len(config.cars) :
            config.cars[i].trackId \o "_car_" \o ToString(i - 1) = id
  THEN config.cars[CHOOSE i \in 1..Len(config.cars) :
                     config.cars[i].trackId \o "_car_" \o ToString(i - 1)
                       = id].isDraggable
  ELSE "unset"

\* the scene after loading the level built from OverrideConfig
InitOverride ==
  LET s == loadLevel(buildLevel(OverrideConfig))
  IN  /\ impl \in Impls
      /\ tracks = s.tracks
      /\ connections = s.connections
      /\ entities = s.entities
      /\ dragState = s.dragState
      /\ lastOp = "loadLevel"
      /\ lastArg = None
      /\ lastResult = "void"
      /\ linkResult = NoLink
      /\ ops = 0
      /\ scene = SceneIdle
      /\ game = GameStart

SpecOverride == InitOverride /\ [][Next]_vars

\* C20: draggability is the per-level override when one is given and the
\* default otherwise.  In EntitySystem startDrag returns false for a
\* locomotive or car whose level configuration sets isDraggable: false;
\* without an override it returns true for a locomotive, and for a car
\* exactly when the car is not completed.
C20_DraggableOverride ==
  (/\ impl = "EntitySystem"
   /\ lastOp = "startDrag"
   /\ lastArg \in EntityIds)
  => IF configIsDraggable(OverrideConfig, lastArg) = "false"
     THEN lastResult = "false"
     ELSE IF configIsDraggable(OverrideConfig, lastArg) = "true"
     THEN lastResult = "true"
     ELSE IF isLocomotive(entities[lastArg])
     THEN lastResult = "true"
     ELSE (lastResult = "true") <=> ~entities[lastArg].isCompleted

---------------------------------------------------------------------------
(* The level builder on arbitrary descriptors *)

\* track ids a descriptor's locomotives and cars may name; "T9" is the id of
\* no track
BuilderTrackIds == {"T1", "T2", "T9"}

\* level descriptors: the level 1 descriptor with each locomotive and each
\* car placed on any of the ids above, and its first car with or without a
\* target locomotive
BuilderConfigs ==
  {[LevelConfig EXCEPT !.locomotives[1].trackId = a,
                       !.locomotives[2].trackId = b,
                       !.cars[1].trackId = c,
                       !.cars[2].trackId = d,
                       !.cars[1].targetLocomotive = target] :
     a \in BuilderTrackIds, b \in BuilderTrackIds,
     c \in BuilderTrackIds, d \in BuilderTrackIds,
     target \in {None, "loco_A"}}

\* the systems before any level is loaded
InitBuilder ==
  /\ impl \in Impls
  /\ tracks = <<>>
  /\ connections = <<>>
  /\ entities = <<>>
  /\ dragState = IdleDragState
  /\ lastOp = "new"
  /\ lastArg = None
  /\ lastResult = "void"
  /\ linkResult = NoLink
  /\ ops = 0
  /\ scene = SceneIdle
  /\ game = GameStart

\* what a call of SplineLevelBuilder.buildLevel gives its caller: the method
\* has no throw statement and returns a level for every descriptor
buildLevelOutcome(config) ==
  [outcome |-> "level", level |-> buildLevel(config)]

\* the scene's construction for a descriptor: buildLevel, then loadLevel of
\* the level that came back
constructScene(config, built) ==
  /\ lastArg' = config
  /\ lastResult' = built
  /\ tracks' = loadLevel(built.level).tracks
  /\ connections' = loadLevel(built.level).connections
  /\ entities' = loadLevel(built.level).entities
  /\ dragState' = IdleDragState

BuildLevel ==
  /\ ops < MaxOps
  /\ \E config \in BuilderConfigs :
       constructScene(config, buildLevelOutcome(config))
  /\ lastOp' = "buildLevel"
  /\ linkResult' = NoLink
  /\ ops' = ops + 1
  /\ UNCHANGED <<impl, scene, game>>

NextBuilder == BuildLevel

SpecBuilder == InitBuilder /\ [][NextBuilder]_vars

\* a locomotive or car of the descriptor names a track the descriptor lacks
hasDanglingTrack(config) ==
  \/ \E i \in 1..Len(config.locomotives) :
       ~HasTrack(config, config.locomotives[i].trackId)
  \/ \E i \in 1..Len(config.cars) :
       ~HasTrack(config, config.cars[i].trackId)

\* C21: building a level from a descriptor in which a car or locomotive names
\* a track that does not exist gives the caller a configuration error; the
\* builder does not return a level that lacks the entity.
C21_DanglingTrackIsError ==
  (lastOp = "buildLevel" /\ hasDanglingTrack(lastArg))
    => /\ lastResult.outcome = "error"
       /\ ~(/\ lastResult.outcome = "level"
            /\ Len(lastResult.level.locomotives) + Len(lastResult.level.trainCars)
                 < Len(lastArg.locomotives) + Len(lastArg.cars))

\* C22: linking two cars that are not directly linked always succeeds in
\* EntitySystem, however many links either car has, and makes the car with
\* the higher trackProgress at the time of the call the front (its
\* linkedToBack is the other car) and the other the back (its linkedToFront
\* is the first car).
C22_CarCarLink ==
  [][(/\ impl = "EntitySystem"
      /\ lastOp' = "updateDrag"
      /\ linkResult'.entity1 \in EntityIds
      /\ linkResult'.entity2 \in EntityIds
      /\ isTrainCar(entities[linkResult'.entity1])
      /\ isTrainCar(entities[linkResult'.entity2])
      /\ ~Includes(entities[linkResult'.entity1].linkedCars,
                   linkResult'.entity2)
      /\ ~Includes(entities[linkResult'.entity2].linkedCars,
                   linkResult'.entity1)
      /\ entities[linkResult'.entity1].trackProgress
           # entities[linkResult'.entity2].trackProgress)
     => LET a == linkResult'.entity1
            b == linkResult'.entity2
            front == IF entities[a].trackProgress > entities[b].trackProgress
                     THEN a ELSE b
            back == IF front = a THEN b ELSE a
        IN  /\ linkResult'.returned = "true"
            /\ entities'[front].linkedToBack = back
            /\ entities'[back].linkedToFront = front
            /\ Includes(entities'[front].linkedCars, back)
            /\ Includes(entities'[back].linkedCars, front)
  ]_vars

\* an updateDrag has just linked two cars of which one was already linked to
\* something else
C22_Witness ==
  /\ impl = "EntitySystem"
  /\ lastOp = "updateDrag"
  /\ linkResult.returned = "true"
  /\ linkResult.entity1 \in EntityIds
  /\ linkResult.entity2 \in EntityIds
  /\ isTrainCar(entities[linkResult.entity1])
  /\ isTrainCar(entities[linkResult.entity2])
  /\ Len(entities[linkResult.entity1].linkedCars) >= 2
  /\ entities[linkResult.entity1].linkedToFront = linkResult.entity2

\* no id occurs twice in a sequence
NoDuplicates(seq) ==
  \A i \in 1..Len(seq) : \A j \in 1..Len(seq) : seq[i] = seq[j] => i = j

\* C23: in every state of EntitySystem, for all entities a and b, a.id is in
\* b.linkedCars exactly when b.id is in a.linkedCars, no id occurs twice in a
\* linkedCars list, and a set linkedToFront or linkedToBack is in the
\* entity's own linkedCars.
C23_LinkedCarsConsistent ==
  impl = "EntitySystem" =>
    \A a \in EntityIds :
      /\ \A b \in EntityIds :
           Includes(entities[b].linkedCars, a)
             <=> Includes(entities[a].linkedCars, b)
      /\ NoDuplicates(entities[a].linkedCars)
      /\ entities[a].linkedToFront # None
           => Includes(entities[a].linkedCars, entities[a].linkedToFront)
      /\ entities[a].linkedToBack # None
           => Includes(entities[a].linkedCars, entities[a].linkedToBack)

\* a car linked to two entities, one in front and one behind
C23_Witness ==
  /\ impl = "EntitySystem"
  /\ \E a \in EntityIds :
       /\ Len(entities[a].linkedCars) >= 2
       /\ entities[a].linkedToFront # None
       /\ entities[a].linkedToBack # None

\* C24: walking a chain front to back (getLinkedEntitiesInOrder) ends for
\* every reachable link state and from every entity, visits at most as many
\* entities as there are, and never returns the same id twice.
C24_ChainWalkNoRepeat ==
  \A id \in EntityIds :
    /\ Len(getLinkedEntitiesInOrder(entities, id)) <= Cardinality(EntityIds)
    /\ NoDuplicates(getLinkedEntitiesInOrder(entities, id))

\* a chain of three or more entities, walked from a member that is not its
\* front-most one
C24_Witness ==
  \E id \in EntityIds :
    /\ Len(getLinkedEntitiesInOrder(entities, id)) >= 3
    /\ getLinkedEntitiesInOrder(entities, id)[1] # id

\* C25: updateDrag and endDrag called while no drag session is open change
\* nothing: the session stays idle and every entity's track, progress,
\* position, links and flags, and every track's occupancy, are unchanged.
C25_IdleCallsChangeNothing ==
  [][(/\ ~dragState.isDragging \/ dragState.draggedCar = None
      /\ lastOp' \in {"updateDrag", "endDrag"})
     => /\ dragState' = dragState
        /\ entities' = entities
        /\ tracks' = tracks
        /\ connections' = connections
  ]_vars

\* updateDrag was called with no session open, after an earlier session had
\* moved an entity and left a dragging flag set
C25_Witness ==
  /\ lastOp = "updateDrag"
  /\ ~dragState.isDragging
  /\ \E id \in EntityIds :
       entities[id].trackProgress # InitialLoad.entities[id].trackProgress
  /\ \E id \in EntityIds : entities[id].isDragging

---------------------------------------------------------------------------
(* The scene's handleInput, frame by frame *)

\* what lies under the pointer on a frame: whether getCarAtPosition finds a
\* car (and whether that car is completed, or at an exit) and whether
\* getEntityAtPosition of the locomotive system finds a locomotive
PointerHits ==
  [car : {"none", "free", "completed", "atExit"}, locomotive : BOOLEAN]

\* per-frame input states: mouse button, what is under the pointer, R key
InputStates ==
  [isDown : BOOLEAN, under : PointerHits, keyR : BOOLEAN]

\* a variant that takes every frame with the button down for a press
mousePressed_ignoringLast(input, lastMouseDown) == input.isDown

mousePressed(input, lastMouseDown) == input.isDown /\ ~lastMouseDown

mouseClicked(input, lastMouseDown) == ~input.isDown /\ lastMouseDown

\* the system whose startDrag a frame invokes ("none" when it invokes none)
startDragInvokedOn(input, lastMouseDown) ==
  IF ~mousePressed(input, lastMouseDown) THEN "none"
  ELSE IF input.under.car \in {"free", "atExit"} THEN "trainCarSystem"
  ELSE IF input.under.locomotive THEN "locomotiveSystem"
  ELSE "none"

\* getActiveDragSystem
getActiveDragSystem(sc) ==
  IF sc.trainCarDragging THEN "trainCarSystem"
  ELSE IF sc.locomotiveDragging THEN "locomotiveSystem"
  ELSE "none"

\* the press: SplineTrainCarSystem.startDrag opens a session unless the car
\* is at an exit; LocomotiveSystem.startDrag opens one for every locomotive
afterPress(sc, input, invoked) ==
  [sc EXCEPT
     !.lastMouseDown = input.isDown,
     !.trainCarDragging =
        IF invoked = "trainCarSystem" /\ input.under.car = "free"
        THEN TRUE ELSE @,
     !.locomotiveDragging =
        IF invoked = "locomotiveSystem" THEN TRUE ELSE @]

\* the release: endDrag of the active system
afterRelease(sc, clicked, active) ==
  IF ~clicked THEN sc
  ELSE IF active = "trainCarSystem"
  THEN [sc EXCEPT !.trainCarDragging = FALSE]
  ELSE IF active = "locomotiveSystem"
  THEN [sc EXCEPT !.locomotiveDragging = FALSE]
  ELSE sc

\* the R key: resetLevel replaces both systems by new ones
afterKeys(sc, input) ==
  IF input.keyR
  THEN [sc EXCEPT !.trainCarDragging = FALSE, !.locomotiveDragging = FALSE]
  ELSE sc

handleInputPressed(sc, input, clicked, pressed) ==
  afterKeys(afterRelease(pressed, clicked, getActiveDragSystem(pressed)),
            input)

handleInput(input) ==
  /\ scene' =
       handleInputPressed(
         scene, input, mouseClicked(input, scene.lastMouseDown),
         afterPress(scene, input,
                    startDragInvokedOn(input, scene.lastMouseDown)))
  /\ lastResult' = startDragInvokedOn(input, scene.lastMouseDown)
  /\ lastArg' = input

HandleInput ==
  /\ ops < MaxOps
  /\ \E input \in InputStates : handleInput(input)
  /\ lastOp' = "handleInput"
  /\ ops' = ops + 1
  /\ UNCHANGED <<impl, tracks, connections, entities, dragState, linkResult,
                 game>>

NextInput == HandleInput

SpecInput == Init /\ [][NextInput]_vars

\* C26: the caller layer never starts a drag while one is open.  For every
\* sequence of per-frame input states fed to handleInput, startDrag is
\* invoked only when both entity systems are idle, and at most one drag
\* session is open at any time.
C26_StartDragOnlyWhenIdle ==
  [][lastOp' = "handleInput" =>
       /\ lastResult' # "none" =>
            ~scene.trainCarDragging /\ ~scene.locomotiveDragging
       /\ ~(scene'.trainCarDragging /\ scene'.locomotiveDragging)
  ]_vars

\* a frame has just started a locomotive drag after an earlier session of
\* the train car system was opened and closed
C26_Witness ==
  /\ lastOp = "handleInput"
  /\ lastResult = "locomotiveSystem"
  /\ scene.locomotiveDragging
  /\ ~scene.trainCarDragging
  /\ ops >= 3

---------------------------------------------------------------------------
(* The track system on its own: addTrack, addConnection, setTrackOccupied,  *)
(* getValidMovePositions                                                    *)

\* number of steps of 0.1 in getValidMovePositions' sampling loop
MoveSamples == 10

\* for (t = 0; t <= 1; t += 0.1): eleven samples, each moved by half a car
validPositionsOn(track) ==
  [i \in 1..(MoveSamples + 1) |->
     Vec(getPositionOnSpline(track.spline,
                             ((i - 1) * PMax) \div MoveSamples).x
           - (TRAIN_CAR_WIDTH * Scale) \div 2,
         getPositionOnSpline(track.spline,
                             ((i - 1) * PMax) \div MoveSamples).y
           - (TRAIN_CAR_HEIGHT * Scale) \div 2)]

\* a variant of the search that adds positions for occupied tracks too
RECURSIVE validMoveSearch_ignoringOccupied(_, _, _, _, _, _)
validMoveSearch_ignoringOccupied(trks, conns, queue, visited, maxDistance, acc) ==
  IF Len(queue) = 0 THEN acc
  ELSE IF Head(queue).trackId \in visited
            \/ Head(queue).distance > maxDistance
  THEN validMoveSearch_ignoringOccupied(trks, conns, Tail(queue), visited,
                                        maxDistance, acc)
  ELSE IF Head(queue).trackId \notin DOMAIN trks
  THEN validMoveSearch_ignoringOccupied(
         trks, conns, Tail(queue), visited \cup {Head(queue).trackId},
         maxDistance, acc)
  ELSE validMoveSearch_ignoringOccupied(
         trks, conns,
         Tail(queue)
           \o [i \in 1..Len(SelectSeq(
                        getConnectedTracksOf(conns, Head(queue).trackId),
                        LAMBDA c : c \notin visited
                                     \cup {Head(queue).trackId})) |->
                 [trackId |->
                    SelectSeq(getConnectedTracksOf(conns, Head(queue).trackId),
                              LAMBDA c : c \notin visited
                                           \cup {Head(queue).trackId})[i],
                  distance |-> Head(queue).distance + 1]],
         visited \cup {Head(queue).trackId}, maxDistance,
         [tracks |-> Append(acc.tracks, Head(queue).trackId),
          positions |-> acc.positions
                          \o validPositionsOn(trks[Head(queue).trackId])])

\* the breadth-first loop of getValidMovePositions; acc holds the positions
\* pushed so far and, beside them, the ids of the tracks they were sampled on
RECURSIVE validMoveSearch(_, _, _, _, _, _)
validMoveSearch(trks, conns, queue, visited, maxDistance, acc) ==
  IF Len(queue) = 0 THEN acc
  ELSE IF Head(queue).trackId \in visited
            \/ Head(queue).distance > maxDistance
  THEN validMoveSearch(trks, conns, Tail(queue), visited, maxDistance, acc)
  ELSE IF Head(queue).trackId \notin DOMAIN trks
  THEN validMoveSearch(trks, conns, Tail(queue),
                       visited \cup {Head(queue).trackId}, maxDistance, acc)
  ELSE validMoveSearch(
         trks, conns,
         Tail(queue)
           \o [i \in 1..Len(SelectSeq(
                        getConnectedTracksOf(conns, Head(queue).trackId),
                        LAMBDA c : c \notin visited
                                     \cup {Head(queue).trackId})) |->
                 [trackId |->
                    SelectSeq(getConnectedTracksOf(conns, Head(queue).trackId),
                              LAMBDA c : c \notin visited
                                           \cup {Head(queue).trackId})[i],
                  distance |-> Head(queue).distance + 1]],
         visited \cup {Head(queue).trackId}, maxDistance,
         IF Head(queue).distance = 0 \/ ~trks[Head(queue).trackId].occupied
         THEN [tracks |-> Append(acc.tracks, Head(queue).trackId),
               positions |-> acc.positions
                               \o validPositionsOn(trks[Head(queue).trackId])]
         ELSE acc)

getValidMovePositions(trks, conns, fromTrackId, maxDistance) ==
  validMoveSearch(trks, conns,
                  <<[trackId |-> fromTrackId, distance |-> 0]>>, {},
                  maxDistance, [tracks |-> <<>>, positions |-> <<>>])

\* bound on the calls made to the track system on its own
MaxTrackOps == 6

\* tracks that may be added: the level's two tracks and a third one that
\* continues the second
TrackPool ==
  {[id |-> "T1", spline |-> Level.tracks[1].spline, occupied |-> FALSE],
   [id |-> "T2", spline |-> Level.tracks[2].spline, occupied |-> FALSE],
   [id |-> "T3",
    spline |-> <<Vec((2 * endX - startX) * Scale, trackY),
                 Vec((3 * endX - 2 * startX) * Scale, trackY)>>,
    occupied |-> FALSE]}

TrackPoolIds == {t.id : t \in TrackPool}

\* hop limits passed to getValidMovePositions
MaxHopsInputs == {0, 1, 2}

\* no entity has been added yet: the track system is being set up
Standalone == DOMAIN entities = {}

AddTrack ==
  /\ Standalone
  /\ ops < MaxTrackOps
  /\ \E track \in TrackPool :
       /\ tracks' = addTrack([tracks |-> tracks, connections |-> connections],
                             track).tracks
       /\ connections' =
            addTrack([tracks |-> tracks, connections |-> connections],
                     track).connections
       /\ lastArg' = track.id
  /\ lastOp' = "addTrack"
  /\ lastResult' = "void"
  /\ ops' = ops + 1
  /\ UNCHANGED <<impl, entities, dragState, linkResult, scene, game>>

AddConnection ==
  /\ Standalone
  /\ ops < MaxTrackOps
  /\ \E from \in TrackPoolIds : \E to \in TrackPoolIds :
       /\ connections' =
            addConnection([tracks |-> tracks, connections |-> connections],
                          [from |-> from, to |-> to]).connections
       /\ lastArg' = [from |-> from, to |-> to]
  /\ lastOp' = "addConnection"
  /\ lastResult' = "void"
  /\ ops' = ops + 1
  /\ UNCHANGED <<impl, tracks, entities, dragState, linkResult, scene, game>>

SetTrackOccupied ==
  /\ Standalone
  /\ ops < MaxTrackOps
  /\ \E trackId \in TrackPoolIds : \E occupied \in BOOLEAN :
       /\ tracks' = setTrackOccupied(tracks, trackId, occupied)
       /\ lastArg' = [trackId |-> trackId, occupied |-> occupied]
  /\ lastOp' = "setTrackOccupied"
  /\ lastResult' = "void"
  /\ ops' = ops + 1
  /\ UNCHANGED <<impl, connections, entities, dragState, linkResult, scene, game>>

GetValidMovePositions ==
  /\ Standalone
  /\ ops < MaxTrackOps
  /\ \E fromTrackId \in TrackPoolIds : \E maxDistance \in MaxHopsInputs :
       /\ lastResult' = getValidMovePositions(tracks, connections,
                                              fromTrackId, maxDistance)
       /\ lastArg' = [fromTrackId |-> fromTrackId,
                      maxDistance |-> maxDistance]
  /\ lastOp' = "getValidMovePositions"
  /\ ops' = ops + 1
  /\ UNCHANGED <<impl, tracks, connections, entities, dragState, linkResult,
                 scene, game>>

\* the track system is set up from nothing, or the level has been loaded and
\* is played
InitTracks == InitBuilder \/ Init

NextTracks ==
  \/ AddTrack
  \/ AddConnection
  \/ SetTrackOccupied
  \/ GetValidMovePositions
  \/ StartDrag
  \/ UpdateDrag
  \/ EndDrag

SpecTracks == InitTracks /\ [][NextTracks]_vars

\* tracks reachable from the tracks of set over at most k connection edges
RECURSIVE tracksWithin(_, _, _)
tracksWithin(conns, set, k) ==
  IF k = 0 THEN set
  ELSE tracksWithin(conns,
                    set \cup UNION {{getConnectedTracksOf(conns, s)[i] :
                                       i \in 1..Len(getConnectedTracksOf(conns, s))} :
                                    s \in set},
                    k - 1)

\* every connection joins two tracks that have been added
connectionsJoinTracks ==
  /\ DOMAIN connections \subseteq DOMAIN tracks
  /\ \A id \in DOMAIN connections :
       \A i \in 1..Len(connections[id]) : connections[id][i] \in DOMAIN tracks

\* C27: on any track graph whose connections join added tracks, cyclic ones
\* included, getValidMovePositions(fromTrackId, maxHops) of an existing track
\* returns a result, and the tracks that contribute sampled positions are
\* exactly the starting track (occupied or not) and every unoccupied track
\* within maxHops connection edges of it; each contributes once, with the
\* same number of samples, and an occupied track other than the start
\* contributes none.
C27_ValidMovePositions ==
  (/\ lastOp = "getValidMovePositions"
   /\ lastArg.fromTrackId \in DOMAIN tracks
   /\ connectionsJoinTracks)
  => /\ {lastResult.tracks[i] : i \in 1..Len(lastResult.tracks)}
          = {lastArg.fromTrackId}
              \cup {t \in tracksWithin(connections, {lastArg.fromTrackId},
                                       lastArg.maxDistance) :
                      ~tracks[t].occupied}
     /\ NoDuplicates(lastResult.tracks)
     /\ Len(lastResult.positions)
          = (MoveSamples + 1) * Len(lastResult.tracks)

\* a query from an occupied track whose neighbour, joined to it in both
\* directions and within range, is occupied too
C27_Witness ==
  /\ lastOp = "getValidMovePositions"
  /\ lastArg.fromTrackId \in DOMAIN tracks
  /\ connectionsJoinTracks
  /\ lastArg.maxDistance >= 1
  /\ tracks[lastArg.fromTrackId].occupied
  /\ \E t \in DOMAIN tracks :
       /\ t # lastArg.fromTrackId
       /\ Includes(getConnectedTracks(lastArg.fromTrackId), t)
       /\ Includes(getConnectedTracks(t), lastArg.fromTrackId)
       /\ tracks[t].occupied
  /\ lastResult.tracks = <<lastArg.fromTrackId>>

\* adjacency conns is symmetric and lists no neighbour twice
adjacencyConsistent(conns) ==
  /\ \A a \in TrackPoolIds \cup DOMAIN conns :
       \A b \in TrackPoolIds \cup DOMAIN conns :
         Includes(getConnectedTracksOf(conns, a), b)
           <=> Includes(getConnectedTracksOf(conns, b), a)
  /\ \A a \in DOMAIN conns : NoDuplicates(conns[a])

\* C28: after every call of addTrack or addConnection, and after every other
\* operation, track adjacency is symmetric (b is in getConnectedTracks(a)
\* exactly when a is in getConnectedTracks(b)) and lists no neighbour twice;
\* a drag, link or occupancy operation leaves the adjacency as it was.
C28_AdjacencySymmetric ==
  [][/\ adjacencyConsistent(connections')
     /\ lastOp' \notin {"addTrack", "addConnection"}
          => connections' = connections]_vars

\* addConnection has just joined two different tracks, the first of which
\* has a second neighbour as well
C28_Witness ==
  /\ lastOp = "addConnection"
  /\ lastArg.from # lastArg.to
  /\ Includes(getConnectedTracks(lastArg.from), lastArg.to)
  /\ Includes(getConnectedTracks(lastArg.to), lastArg.from)
  /\ Len(getConnectedTracks(lastArg.from)) >= 2
  /\ ops >= 3

---------------------------------------------------------------------------
(* positionEntityAtFixedDistance on its own, on tracks whose control points *)
(* run left to right and on tracks whose control points run right to left   *)

\* bound on the calls of positionEntityAtFixedDistance
MaxPositionCalls == 2

\* the control points of every track in the opposite order
reversedTracks(config) ==
  [config EXCEPT
     !.tracks = [i \in 1..Len(config.tracks) |->
                   [config.tracks[i] EXCEPT
                      !.points = [k \in 1..Len(config.tracks[i].points) |->
                                    config.tracks[i].points[
                                      Len(config.tracks[i].points) + 1 - k]]]]]

\* progress values of the entities when the call is made
PositionProgress == {PMax \div 10, PMax \div 2, (9 * PMax) \div 10}

\* the level with its first locomotive and first car at a chosen progress,
\* its second car on either track, and its tracks in either direction
PositionConfigs ==
  {IF reversed
   THEN reversedTracks(
          [LevelConfig EXCEPT !.locomotives[1].progress = locoProgress,
                              !.cars[1].progress = carProgress,
                              !.cars[2].trackId = carTrack])
   ELSE [LevelConfig EXCEPT !.locomotives[1].progress = locoProgress,
                            !.cars[1].progress = carProgress,
                            !.cars[2].trackId = carTrack] :
     <<reversed, locoProgress, carProgress, carTrack>> \in
        BOOLEAN \X PositionProgress \X PositionProgress \X {"T1", "T2"}}

InitPosition ==
  /\ impl \in Impls
  /\ \E config \in PositionConfigs :
       /\ tracks = loadLevel(buildLevel(config)).tracks
       /\ connections = loadLevel(buildLevel(config)).connections
       /\ entities = loadLevel(buildLevel(config)).entities
  /\ dragState = IdleDragState
  /\ lastOp = "loadLevel"
  /\ lastArg = None
  /\ lastResult = "void"
  /\ linkResult = NoLink
  /\ ops = 0
  /\ scene = SceneIdle
  /\ game = GameStart

PositionEntityAtFixedDistance ==
  /\ ops < MaxPositionCalls
  /\ \E referenceId \in DOMAIN entities :
       \E positionId \in DOMAIN entities \ {referenceId} :
         /\ entities' = positionEntityAtFixedDistance(entities, referenceId,
                                                      positionId)
         /\ lastArg' = [referenceEntity |-> referenceId,
                        entityToPosition |-> positionId]
  /\ lastOp' = "positionEntityAtFixedDistance"
  /\ lastResult' = "void"
  /\ ops' = ops + 1
  /\ UNCHANGED <<impl, tracks, connections, dragState, linkResult, scene, game>>

NextPosition == PositionEntityAtFixedDistance

SpecPosition == InitPosition /\ [][NextPosition]_vars

\* C29: positionEntityAtFixedDistance changes the progress of the entity to
\* position only when it and its reference are on the same track, and its
\* new progress is then on the side of the reference's progress (lower or
\* higher) on which its progress was before the call, whichever way the
\* track's control points run.
C29_RepositionKeepsSide ==
  [][lastOp' = "positionEntityAtFixedDistance"
     => /\ entities[lastArg'.referenceEntity].currentTrack
             # entities[lastArg'.entityToPosition].currentTrack
           => entities'[lastArg'.entityToPosition].trackProgress
                = entities[lastArg'.entityToPosition].trackProgress
        /\ entities[lastArg'.referenceEntity].currentTrack
             = entities[lastArg'.entityToPosition].currentTrack
           => /\ entities[lastArg'.entityToPosition].trackProgress
                   < entities[lastArg'.referenceEntity].trackProgress
                 => entities'[lastArg'.entityToPosition].trackProgress
                      <= entities[lastArg'.referenceEntity].trackProgress
              /\ entities[lastArg'.entityToPosition].trackProgress
                   > entities[lastArg'.referenceEntity].trackProgress
                 => entities'[lastArg'.entityToPosition].trackProgress
                      >= entities[lastArg'.referenceEntity].trackProgress]_vars

---------------------------------------------------------------------------
(* getPositionOnSpline on its own *)

\* control points the splines are made of
SplineCoordinates ==
  {Vec(0, 0), Vec(100 * Scale, 0), Vec(50 * Scale, 40 * Scale)}

\* longest spline passed to getPositionOnSpline
MaxSplinePoints == 4

\* bound on the calls of getPositionOnSpline
MaxSplineCalls == 1

SplineInputs ==
  UNION {[1..k -> SplineCoordinates] : k \in 0..MaxSplinePoints}

\* parameters passed to getPositionOnSpline: the ends, the quarters, a value
\* below 0 and a value above 1
SplineParameters ==
  {0 - PMax \div 4, 0, PMax \div 4, PMax \div 2, (3 * PMax) \div 4, PMax,
   PMax + PMax \div 4}

GetPositionOnSpline ==
  /\ ops < MaxSplineCalls
  /\ \E spline \in SplineInputs : \E t \in SplineParameters :
       /\ lastArg' = [spline |-> spline, t |-> t]
       /\ lastResult' = getPositionOnSpline(spline, t)
  /\ lastOp' = "getPositionOnSpline"
  /\ ops' = ops + 1
  /\ UNCHANGED <<impl, tracks, connections, entities, dragState, linkResult,
                 scene, game>>

NextSpline == GetPositionOnSpline

SpecSpline == InitBuilder /\ [][NextSpline]_vars

\* C30: getPositionOnSpline(points, t) is the first control point at t = 0
\* and the last control point at t = 1 for every number of control points
\* from 1 up, and for two control points it is their linear interpolation
\* (1 - t) * first + t * second for every t in [0, 1].
C30_SplineEndpointsAndLerp ==
  (lastOp = "getPositionOnSpline" /\ Len(lastArg.spline) >= 1)
  => /\ lastArg.t = 0 => lastResult = lastArg.spline[1]
     /\ lastArg.t = PMax => lastResult = lastArg.spline[Len(lastArg.spline)]
     /\ (Len(lastArg.spline) = 2 /\ lastArg.t >= 0 /\ lastArg.t <= PMax)
        => lastResult =
             Vec((lastArg.spline[1].x * (PMax - lastArg.t)
                    + lastArg.spline[2].x * lastArg.t) \div PMax,
                 (lastArg.spline[1].y * (PMax - lastArg.t)
                    + lastArg.spline[2].y * lastArg.t) \div PMax)

\* the track [(0,0), (100,0)] evaluated at 0.5 gives (50,0)
C30_Witness ==
  /\ lastOp = "getPositionOnSpline"
  /\ lastArg.spline = <<Vec(0, 0), Vec(100 * Scale, 0)>>
  /\ lastArg.t = PMax \div 2
  /\ lastResult = Vec(50 * Scale, 0)

\* the id buildLevel gives the car at place i (1-based) of the descriptor
assignedCarId(config, i) ==
  config.cars[i].trackId \o "_car_" \o ToString(i - 1)

\* C32: for every car of the descriptor that declares a targetLocomotive and
\* is built, the requiredConnections of the level buildLevel returns hold the
\* pair (the id assigned to that car, its targetLocomotive), and every pair
\* of requiredConnections names the id assigned to a car that declares a
\* target, whatever the mix and order of cars with and without a target.
C32_RequiredConnectionsNameTheirCars ==
  lastOp = "buildLevel"
  => /\ \A i \in 1..Len(lastArg.cars) :
          (/\ lastArg.cars[i].targetLocomotive # None
           /\ HasTrack(lastArg, lastArg.cars[i].trackId))
          => \E k \in 1..Len(lastResult.level.requiredConnections) :
               lastResult.level.requiredConnections[k]
                 = [carId |-> assignedCarId(lastArg, i),
                    locomotiveId |-> lastArg.cars[i].targetLocomotive]
     /\ \A k \in 1..Len(lastResult.level.requiredConnections) :
          \E i \in 1..Len(lastArg.cars) :
            /\ lastArg.cars[i].targetLocomotive # None
            /\ lastResult.level.requiredConnections[k].carId
                 = assignedCarId(lastArg, i)

\* C34: in every state each locomotive has at most maxCars entries in
\* linkedCars, every car in a locomotive's linkedCars has a type in that
\* locomotive's acceptedCarTypes, and no locomotive is in the linkedCars of
\* another locomotive.
C34_LocomotiveLinksRespectLimits ==
  \A a \in DOMAIN entities :
    isLocomotive(entities[a])
    => /\ Len(entities[a].linkedCars) <= entities[a].maxCars
       /\ \A i \in 1..Len(entities[a].linkedCars) :
            /\ entities[a].linkedCars[i] \in DOMAIN entities
            /\ ~isLocomotive(entities[entities[a].linkedCars[i]])
            /\ Includes(entities[a].acceptedCarTypes,
                        entities[entities[a].linkedCars[i]].type)

\* loco_B, which takes one car, has its one car and a further car has been
\* dragged against it
C34_Witness ==
  /\ \E a \in DOMAIN entities :
       /\ isLocomotive(entities[a])
       /\ Len(entities[a].linkedCars) = entities[a].maxCars
  /\ lastOp = "updateDrag"
  /\ linkResult.returned = "false"

\* C35: two entities that are on different tracks before a drag operation
\* are on different tracks after it: no drag brings an entity onto a track
\* that holds another entity.
C35_SeparatedStaySeparated ==
  [][\A a \in DOMAIN entities : \A b \in DOMAIN entities :
       (/\ a \in DOMAIN entities'
        /\ b \in DOMAIN entities'
        /\ entities[a].currentTrack # entities[b].currentTrack)
       => entities'[a].currentTrack # entities'[b].currentTrack]_vars

\* an entity is alone on a track, and updateDrag has just run for an entity
\* dragged on a track connected to that one
C35_Witness ==
  /\ lastOp = "updateDrag"
  /\ dragState.isDragging
  /\ \E b \in DOMAIN entities :
       /\ b # dragState.draggedCar
       /\ entities[b].currentTrack # entities[dragState.draggedCar].currentTrack
       /\ \A c \in DOMAIN entities \ {b} :
            entities[c].currentTrack # entities[b].currentTrack
       /\ Includes(getConnectedTracks(entities[dragState.draggedCar].currentTrack),
                   entities[b].currentTrack)

\* C36: in every state of EntitySystem and for every entity e, the ids the
\* front-to-back chain walk from e returns (getLinkedEntitiesInOrder) are
\* exactly e and the entities linked to e directly or through others
\* (getAllLinkedEntityIds, which holds e itself).
C36_ChainWalkReachesWholeChain ==
  impl = "EntitySystem" =>
    \A e \in DOMAIN entities :
      {getLinkedEntitiesInOrder(entities, e)[i] :
         i \in 1..Len(getLinkedEntitiesInOrder(entities, e))}
        = getAllLinkedEntityIds(entities, entities[e])

\* track, progress, links and completion flag of an entity
linkAndPlaceOf(entity) ==
  <<entity.currentTrack, entity.trackProgress, entity.linkedCars,
    entity.linkedToFront, entity.linkedToBack, entity.isCompleted>>

\* C37: updateDrag of an open session changes the track, progress, links and
\* completion flag only of entities that are in the dragged entity's chain
\* when the call returns (the dragged entity and everything linked to it
\* directly or through others, an entity linked during the call and its
\* chain included); every other entity keeps them.
C37_UpdateDragTouchesOnlyChain ==
  [][(lastOp' = "updateDrag" /\ dragState.isDragging
        /\ dragState.draggedCar \in DOMAIN entities)
     => \A e \in DOMAIN entities :
          e \notin walkLinked(entities', <<dragState.draggedCar>>, {})
          => linkAndPlaceOf(entities'[e]) = linkAndPlaceOf(entities[e])]_vars

\* updateDrag has moved a dragged entity that has a chain member while
\* another entity is outside its chain
C37_Witness ==
  /\ lastOp = "updateDrag"
  /\ dragState.isDragging
  /\ linkResult.returned = "none"
  /\ Len(entities[dragState.draggedCar].linkedCars) >= 1
  /\ \E e \in DOMAIN entities :
       e \notin walkLinked(entities, <<dragState.draggedCar>>, {})

\* C38: in every state of EntitySystem and for every list of required pairs
\* for which checkLevelCompletion returns true, every car named in the list
\* has isCompleted = TRUE and is refused by startDrag (it is not draggable).
C38_CompletionMeansCarsCompleted ==
  impl = "EntitySystem" =>
    \A requiredPairs \in RequiredPairsInputs :
      checkLevelCompletion(entities, requiredPairs)
      => \A i \in 1..Len(requiredPairs) :
           /\ requiredPairs[i].carId \in DOMAIN entities
           /\ entities[requiredPairs[i].carId].isCompleted
           /\ ~isDraggable(entities[requiredPairs[i].carId])

\* C39: no drag operation removes a link: an id that is in an entity's
\* linkedCars before startDrag, updateDrag or endDrag is in it afterwards.
C39_LinksAreNeverRemoved ==
  [][\A a \in DOMAIN entities :
       /\ a \in DOMAIN entities'
       /\ \A i \in 1..Len(entities[a].linkedCars) :
            Includes(entities'[a].linkedCars, entities[a].linkedCars[i])]_vars

\* the dragged entity has just been coupled to a second entity and holds
\* both couplings
C39_Witness ==
  /\ lastOp = "updateDrag"
  /\ linkResult.returned = "true"
  /\ dragState.isDragging
  /\ Len(entities[dragState.draggedCar].linkedCars) >= 2

---------------------------------------------------------------------------
(* The game: GameEngine, GameStateManager, LevelManager, Game *)

\* bound on the frames of the game loop
MaxFrames == 7

\* bound on the calls of GameEngine.pause
MaxPauses == 2

\* ids of the levels Game.setupLevels registers
RegisteredLevels == {1, 2}

\* GameStateManager.setState: the new state and the flags its switch sets
applyState(g, newState) ==
  [g EXCEPT
     !.currentState = newState,
     !.isPaused = IF newState = "PAUSED" THEN TRUE
                  ELSE IF newState \in {"MAIN_MENU", "PLAYING", "GAME_OVER",
                                        "LEVEL_COMPLETE"}
                  THEN FALSE ELSE @,
     !.isRunning = IF newState = "PLAYING" THEN TRUE
                   ELSE IF newState = "GAME_OVER" THEN FALSE ELSE @]

\* GameEngine.handleStateChange with Game.createSceneForState as callback:
\* the scene the callback returns becomes currentScene, null included; for
\* PLAYING a new level scene is constructed
handleStateChange(g, newState) ==
  IF newState = "MAIN_MENU" THEN [g EXCEPT !.currentScene = "mainMenu"]
  ELSE IF newState = "LEVEL_SELECT"
  THEN [g EXCEPT !.currentScene = "levelSelect"]
  ELSE IF newState = "PLAYING"
  THEN [g EXCEPT
          !.currentLevelId = IF g.currentLevel \in RegisteredLevels
                             THEN g.currentLevel ELSE @,
          !.currentScene = "level",
          !.sceneInstance = @ + 1,
          !.isLevelComplete = FALSE,
          !.completionsReported = 0,
          !.nextLevelCalls = 0]
  ELSE IF newState = "LEVEL_COMPLETE"
  THEN [g EXCEPT !.currentScene = None, !.levelCompleteTimers = @ + 1]
  ELSE [g EXCEPT !.currentScene = None]

setState(g, newState) ==
  IF g.currentState = newState THEN g
  ELSE handleStateChange(applyState(g, newState), newState)

\* the end of a frame: BaseSplineRailyardScene.update with
\* checkLevelCompletion when the current scene is a level scene, whose
\* entity map is es, then the request for the next frame
sceneUpdate(g, es) ==
  IF g.currentScene # "level" \/ g.isLevelComplete
     \/ ~checkLevelCompletion(es, Level.requiredConnections)
  THEN [g EXCEPT !.pc = "idle", !.frameRequested = TRUE]
  ELSE [g EXCEPT !.pc = "idle", !.frameRequested = TRUE,
                 !.isLevelComplete = TRUE,
                 !.completionsReported = @ + 1,
                 !.completionTimers = Append(@, g.sceneInstance)]

\* the systems of a level scene: those of a scene constructed in this step,
\* or the ones there were
levelSceneOf(g) ==
  IF g.sceneInstance # game.sceneInstance
  THEN /\ tracks' = InitialLoad.tracks
       /\ connections' = InitialLoad.connections
       /\ entities' = InitialLoad.entities
       /\ dragState' = IdleDragState
       /\ scene' = SceneIdle
  ELSE UNCHANGED <<tracks, connections, entities, dragState, scene>>

\* input states of a frame of the level scene: the button goes down on an
\* entity, is held at a pointer position, or is up with at most one of the
\* keys the scene reads
LevelInputs ==
  {[isDown |-> TRUE, entity |-> id, position |-> p, key |-> "none"] :
     id \in EntityIds, p \in UNION {GrabPoints(e) : e \in EntityIds}}
  \cup {[isDown |-> TRUE, entity |-> None, position |-> Vec(x * Scale, trackY),
          key |-> "none"] : x \in {500, 640, 1000}}
  \cup {[isDown |-> FALSE, entity |-> None, position |-> Vec(0, 0),
          key |-> k] : k \in {"none", "KeyR", "Escape"}}

\* which of the scene's two systems has the open session
sceneAfter(isDown, ds, es) ==
  [lastMouseDown |-> isDown,
   trainCarDragging |-> ds.isDragging /\ ds.draggedCar \in DOMAIN es
                          /\ isTrainCar(es[ds.draggedCar]),
   locomotiveDragging |-> ds.isDragging /\ ds.draggedCar \in DOMAIN es
                            /\ isLocomotive(es[ds.draggedCar])]

\* handleInput, lines 122-139: the press starts a drag of a car that is not
\* completed, or of a locomotive
framePress(g, input) ==
  /\ input.entity \in EntityIds
  /\ input.position \in GrabPoints(input.entity)
  /\ IF isLocomotive(entities[input.entity])
        \/ ~entities[input.entity].isCompleted
     THEN startDrag(input.entity, input.position)
     ELSE /\ lastResult' = "false"
          /\ UNCHANGED <<entities, dragState>>
  /\ scene' = sceneAfter(TRUE, dragState', entities')
  /\ game' = [g EXCEPT !.pc = "held"]
  /\ linkResult' = NoLink
  /\ UNCHANGED <<tracks, connections>>

\* handleInput, lines 141-147, then update: the active system's updateDrag
frameHeld(g, input) ==
  /\ updateDrag(input.position)
  /\ game' = sceneUpdate(g, entities')
  /\ lastResult' = "void"
  /\ UNCHANGED <<connections, dragState, scene>>

\* handleInput, lines 158-164, then update: Escape leaves for the main menu,
\* R reloads gameState.level
frameKeys(g, key) ==
  IF key = "KeyR" THEN
    /\ resetLevel(loadLevel(currentLevel))
    /\ scene' = [scene EXCEPT !.trainCarDragging = FALSE,
                              !.locomotiveDragging = FALSE]
    /\ game' = sceneUpdate([g EXCEPT !.isLevelComplete = FALSE], entities')
  ELSE IF key = "Escape" THEN
    /\ game' = sceneUpdate(setState(g, "MAIN_MENU"), entities)
    /\ UNCHANGED <<tracks, connections, entities, dragState, scene>>
  ELSE
    /\ game' = sceneUpdate(g, entities)
    /\ UNCHANGED <<tracks, connections, entities, dragState, scene>>

\* handleInput, lines 149-156: the release ends the active system's drag
frameReleased(g, input) ==
  /\ endDrag
  /\ scene' = sceneAfter(FALSE, dragState', entities')
  /\ game' = IF input.key = "none" THEN sceneUpdate(g, entities')
             ELSE [g EXCEPT !.pc = "keys"]
  /\ lastResult' = "void"
  /\ linkResult' = NoLink
  /\ UNCHANGED <<tracks, connections>>

\* a frame of the level scene, as far as its first call into the systems
levelFrame(g, input) ==
  IF input.isDown /\ ~scene.lastMouseDown THEN framePress(g, input)
  ELSE IF input.isDown
  THEN input.entity = None /\ frameHeld(g, input)
  ELSE IF scene.lastMouseDown THEN frameReleased(g, input)
  ELSE /\ frameKeys(g, input.key)
       /\ lastResult' = "void"
       /\ linkResult' = NoLink

\* a frame of the main menu: its buttons
menuFrame(g, choice) ==
  IF choice = "PLAY" THEN setState(g, "PLAYING")
  ELSE IF choice = "LEVEL SELECT" THEN setState(g, "LEVEL_SELECT")
  ELSE g

\* a frame of the level-select scene: back or Escape, or selectLevel
selectFrame(g, choice) ==
  IF choice.kind = "back" THEN setState(g, "MAIN_MENU")
  ELSE IF choice.kind = "selectLevel"
  THEN setState([g EXCEPT !.currentLevelId = choice.level,
                          !.currentLevel = choice.level],
                "PLAYING")
  ELSE g

\* a frame outside the level scene; after is the game once the scene has
\* handled its input
sceneFrame(after) ==
  /\ game' = sceneUpdate(after,
                       IF after.sceneInstance # game.sceneInstance
                       THEN InitialLoad.entities ELSE entities)
  /\ levelSceneOf(after)
  /\ lastResult' = "void"
  /\ linkResult' = NoLink

\* GameEngine.gameLoop: one frame, as far as the level scene's first call
\* into its systems
GameLoop ==
  /\ game.pc = "idle"
  /\ game.frameRequested
  /\ game.frames < MaxFrames
  /\ IF ~game.isRunning /\ game.currentState # "MAIN_MENU" THEN
       /\ game' = [game EXCEPT !.frames = @ + 1, !.frameRequested = FALSE]
       /\ lastArg' = None
       /\ lastResult' = "return"
       /\ UNCHANGED <<tracks, connections, entities, dragState, scene,
                      linkResult>>
     ELSE IF game.isPaused \/ game.currentScene = None THEN
       /\ lastArg' = None
       /\ sceneFrame([game EXCEPT !.frames = @ + 1])
     ELSE IF game.currentScene = "mainMenu" THEN
       \E choice \in {"none", "PLAY", "LEVEL SELECT"} :
         /\ lastArg' = choice
         /\ sceneFrame(menuFrame([game EXCEPT !.frames = @ + 1], choice))
     ELSE IF game.currentScene = "levelSelect" THEN
       \E choice \in
            {[kind |-> k, level |-> 0] : k \in {"none", "back"}}
            \cup {[kind |-> "selectLevel", level |-> id] :
                    id \in RegisteredLevels} :
         /\ lastArg' = choice
         /\ sceneFrame(selectFrame([game EXCEPT !.frames = @ + 1], choice))
     ELSE
       \E input \in LevelInputs :
         /\ lastArg' = input
         /\ levelFrame([game EXCEPT !.frames = @ + 1, !.input = input],
                       input)
  /\ lastOp' = "gameLoop"
  /\ UNCHANGED <<impl, ops>>

\* the rest of a frame of the level scene after its first call into the
\* systems: updateDrag on the frame of the press, the keys on the frame of
\* the release
HandleInputRest ==
  /\ game.pc # "idle"
  /\ IF game.pc = "held"
     THEN /\ frameHeld(game, game.input)
     ELSE /\ frameKeys(game, game.input.key)
          /\ lastResult' = "void"
          /\ linkResult' = NoLink
  /\ lastOp' = "gameLoop"
  /\ lastArg' = game.input
  /\ UNCHANGED <<impl, ops>>

\* GameEngine.pause, which changes something in the states PLAYING and
\* PAUSED only
Pause ==
  /\ game.pc = "idle"
  /\ game.pauses < MaxPauses
  /\ game.currentState \in {"PLAYING", "PAUSED"}
  /\ game' = setState([game EXCEPT !.pauses = @ + 1],
                       IF game.currentState = "PLAYING" THEN "PAUSED"
                       ELSE "PLAYING")
  /\ levelSceneOf(game')
  /\ lastOp' = "pause"
  /\ lastArg' = None
  /\ lastResult' = "void"
  /\ linkResult' = NoLink
  /\ UNCHANGED <<impl, ops>>

\* the timeout checkLevelCompletion sets: GameStateManager.nextLevel, then
\* the LEVEL_COMPLETE state
CompletionTimeout ==
  /\ game.pc = "idle"
  /\ game.completionTimers # <<>>
  /\ game' =
       setState(
         [game EXCEPT
            !.completionTimers = Tail(@),
            !.currentLevel = @ + 1,
            !.nextLevelCalls =
               IF Head(game.completionTimers) = game.sceneInstance
               THEN @ + 1 ELSE @],
         "LEVEL_COMPLETE")
  /\ lastOp' = "completionTimeout"
  /\ lastArg' = None
  /\ lastResult' = "void"
  /\ linkResult' = NoLink
  /\ UNCHANGED <<impl, tracks, connections, entities, dragState, scene, ops>>

\* the timeout createSceneForState sets for LEVEL_COMPLETE: the next level
\* when LevelManager has one, the main menu otherwise
LevelCompleteTimeout ==
  /\ game.pc = "idle"
  /\ game.levelCompleteTimers > 0
  /\ game' =
       IF game.currentLevelId + 1 \in RegisteredLevels
       THEN setState([game EXCEPT !.levelCompleteTimers = @ - 1,
                                  !.currentLevelId = @ + 1], "PLAYING")
       ELSE setState([game EXCEPT !.levelCompleteTimers = @ - 1],
                     "MAIN_MENU")
  /\ levelSceneOf(game')
  /\ lastOp' = "levelCompleteTimeout"
  /\ lastArg' = None
  /\ lastResult' = "void"
  /\ linkResult' = NoLink
  /\ UNCHANGED <<impl, ops>>

NextGame ==
  GameLoop \/ HandleInputRest \/ Pause \/ CompletionTimeout
    \/ LevelCompleteTimeout

SpecGame == Init /\ [][NextGame]_vars

\* C31: while the game state is MAIN_MENU or LEVEL_SELECT the game loop keeps
\* running every frame, isRunning false included: in those states the next
\* frame is always requested, so the level-select scene gets its input
\* before any level has been played.
C31_MenuLoopKeepsRunning ==
  game.currentState \in {"MAIN_MENU", "LEVEL_SELECT"} => game.frameRequested

\* C40: pause() in state PAUSED returns to PLAYING with the scene instance
\* that was current before the pause, and with the level progress (entities
\* and tracks) it had.
C40_ResumeKeepsScene ==
  [][(lastOp' = "pause" /\ game.currentState = "PAUSED") =>
       /\ game'.currentState = "PLAYING"
       /\ game'.currentScene = "level"
       /\ game'.sceneInstance = game.sceneInstance
       /\ entities' = entities
       /\ tracks' = tracks
  ]_vars

\* C33: within one visit to a level scene completion is reported at most
\* once: the bonus is added and the timeout set at most once, and
\* nextLevel() with the LEVEL_COMPLETE transition runs at most once for the
\* scene, whatever frames and inputs follow the first report.
C33_CompletionReportedOnce ==
  game.completionsReported <= 1 /\ game.nextLevelCalls <= 1

====
